---- MODULE Spec2Model ----
(***************************************************************************)
(* Cache-aside data endpoints (cargo packages, GitHub contributions,       *)
(* GitHub starred) over a shared key-value store, the cache invalidation   *)
(* endpoint and the Strava token handlers of v2alessandrorosa.com.         *)
(*                                                                         *)
(* Every `await` of a handler is one step of the request that runs it; the *)
(* synchronous code up to the next `await` (or the return) belongs to the  *)
(* same step.  Store writes of the data endpoints are not awaited: they    *)
(* stay in flight in `writes` until the store applies or rejects them.     *)
(***************************************************************************)
EXTENDS Integers, Sequences, FiniteSets, TLC

VARIABLES
  universe,   \* the environment of the behaviour: "system", "race" or "routine"
  config,     \* useRuntimeConfig(event)
  store,      \* the key-value store: key -> Absent or [val, ttl]
  writes,     \* setex commands issued and not yet settled
  pc,         \* per request slot: where its handler stands
  ep,         \* per request slot: the endpoint it runs
  reqNo,      \* per request slot: number of the request it serves
  acc,        \* per request slot: `packages` / `projects`
  seen,       \* per request slot: `seenProjects`
  cursor,     \* per request slot: `cursor` (contributions) / `url` (cargo)
  header,     \* per request slot: x-redis-cache
  body,       \* per request slot: the response body as sent (JSON text)
  log,        \* per request slot: ghost, what the request did upstream
  started,    \* number of data requests started so far
  lastWritten,\* ghost: per key, the JSON text of the last setex applied
  fresh,      \* ghost: the github:starred entry settled first since it was last absent
  inv,        \* the invalidation request in progress or finished
  invCount,   \* number of invalidation requests started so far
  auth,       \* per request slot: the Strava token handler it runs and where it stands
  issued,     \* number of token responses the Strava token endpoint has given
  tokenLog,   \* ghost: what became of the msets of the Strava handlers
  responseCache \* per endpoint: the response defineCachedEventHandler holds

vars == <<universe, config, store, writes, pc, ep, reqNo, acc, seen, cursor,
          header, body, log, started, lastWritten, fresh, inv, invCount,
          auth, issued, tokenLog, responseCache>>

-----------------------------------------------------------------------------
(* Bounds of the model *)

NReq == 2             \* request slots (concurrent data requests)
MaxRequests == 3      \* data requests over a behaviour of concurrent requests
MaxSequential == 3    \* data requests over a behaviour of the system
MaxRoutine == 1       \* data requests over a behaviour that explores one routine
MaxCalls == 3         \* upstream calls of one request before the model stops following it
MaxPages == 2         \* length of the longest upstream page chain
MaxInvalidations == 1 \* invalidation requests over a behaviour
MaxDelFailures == 1   \* deletes of one invalidation request that the store rejects
MaxAuth == 3          \* Strava token requests over a behaviour
MaxCached == 2        \* data requests over a behaviour that follows the response cache
MaxIssued == 3        \* token responses of the Strava token endpoint over a behaviour

Reqs == 1..NReq

\* the environments the model is explored in:
\*   "system"   one data request at a time, invalidation requests, few responses
\*   "race"     NReq concurrent data requests, few responses
\*   "routine"  one data request at a time, many responses, any configuration
\*   "strava"   NReq concurrent Strava token requests, any Strava configuration
\*   "cached"   as "system", and the response cache of defineCachedEventHandler is
\*              followed; in the other environments every request comes after the
\*              cached response of its endpoint has aged out and reaches the handler
Rich(u) == u = "routine"

Slots(u) == IF u \in {"race", "strava"} THEN NReq ELSE 1

Requests(u) ==
  IF u = "race" THEN MaxRequests
  ELSE IF u = "system" THEN MaxSequential
  ELSE IF u = "cached" THEN MaxCached
  ELSE MaxRoutine

-----------------------------------------------------------------------------
(* JavaScript values *)

Undefined == "undefined"
Null == "null"
Absent == [absent |-> TRUE]

Truthy(s) == s \notin {"", Undefined, Null}

\* a || b on strings
Or(a, b) == IF Truthy(a) THEN a ELSE b

Has(r, f) == f \in DOMAIN r

\* r?.stargazerCount ?? 0
StarsOrZero(r) == IF Has(r, "stargazerCount") THEN r.stargazerCount ELSE 0

\* String.prototype.toLowerCase on the names of the model
toLowerCase(s) ==
  CASE s = "Ab/X" -> "ab/x"
    [] s = "X"    -> "x"
    [] s = "Zed"  -> "zed"
    [] s = "O/B"  -> "o/b"
    [] OTHER      -> s

\* the collation order of the lower-cased names of the model
Collation ==
  <<"a", "ab/x", "alpha", "b", "beta", "c", "cd/y", "gamma", "o/a", "o/b", "o/c",
    "x", "y", "zed">>

Rank(s) == CHOOSE i \in 1..Len(Collation) : Collation[i] = s

\* String.prototype.localeCompare
localeCompare(a, b) ==
  IF Rank(a) < Rank(b) THEN -1 ELSE IF Rank(a) > Rank(b) THEN 1 ELSE 0

\* r?.f, for the string properties of the model
Get(r, f) == IF Has(r, f) THEN r[f] ELSE Undefined

StringFields == {"name", "nameWithOwner"}

\* JSON.stringify of one object: properties whose value is undefined are left out
JsonObject(r) ==
  [f \in {g \in DOMAIN r : ~(g \in StringFields /\ r[g] = Undefined)} |-> r[f]]

\* JSON.stringify of a list of objects
JsonStringify(list) == [json |-> [i \in 1..Len(list) |-> JsonObject(list[i])]]

\* a parse that loses the first element of the list
JsonParse_LosesHead(text) == IF text.json = <<>> THEN <<>> ELSE Tail(text.json)

\* JSON.parse of a text produced by JSON.stringify
JsonParse(text) == text.json

-----------------------------------------------------------------------------
(* Runtime configuration and cache keys *)

Configs ==
  [cargoUserId : {"", "42"}, githubUsername : {"octo"},
   npmUsername : {"npmuser"}, leetcodeUsername : {"leet"},
   stravaClientId : {"", "client"}, stravaClientSecret : {"", "secret"},
   stravaRefreshToken : {"", "Renv"}]

\* the configurations of environment u: the data handlers are explored with Strava
\* configured, the Strava handlers with the cargo user id configured
ConfigsOf(u) ==
  {c \in Configs :
     /\ ~Rich(u) => Truthy(c.cargoUserId)
     /\ u # "strava" => /\ Truthy(c.stravaClientId) /\ Truthy(c.stravaClientSecret)
                        /\ Truthy(c.stravaRefreshToken)}

Endpoints == {"cargo", "contributions", "starred"}

\* const cacheKey = ... of the three data handlers
cacheKey(e, cfg) ==
  CASE e = "cargo"         -> "cargo:packages:" \o cfg.cargoUserId
    [] e = "contributions" -> "github:contributions:" \o cfg.githubUsername
    [] e = "starred"       -> "github:starred"

\* the services of the cacheKeys object, in property order
Services == <<"github", "strava", "wakatime", "npm", "leetcode">>

\* a key map whose strava entry lists the token keys too
cacheKeys_WithTokens(cfg) ==
  [github   |-> <<"github:starred", "github:repositories",
                  "github:contributions:" \o cfg.githubUsername>>,
   strava   |-> <<"strava:activities", "strava:access_token", "strava:refresh_token",
                  "strava:athlete_id">>,
   wakatime |-> <<"wakatime:stats">>,
   npm      |-> <<"npm:packages:" \o cfg.npmUsername>>,
   leetcode |-> <<"leetcode:stats:" \o cfg.leetcodeUsername>>]

\* const cacheKeys = { ... } of the invalidation handler
cacheKeys(cfg) ==
  [github   |-> <<"github:starred", "github:repositories",
                  "github:contributions:" \o cfg.githubUsername>>,
   strava   |-> <<"strava:activities">>,
   wakatime |-> <<"wakatime:stats">>,
   npm      |-> <<"npm:packages:" \o cfg.npmUsername>>,
   leetcode |-> <<"leetcode:stats:" \o cfg.leetcodeUsername>>]

Range(s) == {s[i] : i \in DOMAIN s}

\* keys the data endpoints of the model write
DataKeys(cfg) == {cacheKey(e, cfg) : e \in Endpoints}

\* keys the Strava token handlers write
TokenKeys == {"strava:access_token", "strava:refresh_token", "strava:athlete_id"}

\* keys owned by services whose endpoints are outside the model
ForeignKeys(cfg) ==
  UNION {Range(cacheKeys(cfg)[Services[i]]) : i \in DOMAIN Services}
    \ (DataKeys(cfg) \cup TokenKeys)

Keys(cfg) == DataKeys(cfg) \cup ForeignKeys(cfg) \cup TokenKeys

-----------------------------------------------------------------------------
(* The upstream services: the responses the environment may give *)

SeqsUpTo(S, n) == UNION {[1..k -> S] : k \in 0..n}

\* repositories the GitHub API may report as contributed to
RepoA == [nameWithOwner |-> "Ab/X", name |-> "X", stargazerCount |-> 50]
RepoB == [nameWithOwner |-> "ab/x", name |-> "x", stargazerCount |-> 10]
RepoC == [nameWithOwner |-> "cd/y", name |-> "y", stargazerCount |-> 50]
RepoD == [nameWithOwner |-> "", name |-> "Zed"]
RepoE == [nameWithOwner |-> "", name |-> "", stargazerCount |-> 10]

ContribPages(u) ==
  IF Rich(u)
    THEN SeqsUpTo({RepoA, RepoB, RepoC, RepoD, RepoE}, 2)
    ELSE {<<>>, <<RepoC, RepoA>>}

CursorOf(k) == "cursor" \o ToString(k)

\* the page a repositoriesContributedTo query designates: the first one when it
\* carries no `after` argument
ContribPageIndex(after) ==
  IF after = Null THEN 1
  ELSE 1 + (CHOOSE k \in 1..(MaxPages + MaxCalls) : CursorOf(k) = after)

\* answers of the GitHub API to a repositoriesContributedTo query
ContribResponses(u, after) ==
  LET k == ContribPageIndex(after) IN
    {[nodes |-> n, hasNextPage |-> h,
      endCursor |-> IF n = <<>> THEN Null ELSE CursorOf(k)] :
        n \in ContribPages(u),
        h \in IF k < MaxPages THEN BOOLEAN ELSE {FALSE}}
    \cup (IF Rich(u) THEN {[hasNextPage |-> FALSE, endCursor |-> Null]} ELSE {})

\* repositories the GitHub API may report as starred
StarA == [nameWithOwner |-> "o/b", name |-> "b", stargazerCount |-> 10]
StarB == [nameWithOwner |-> "o/c", name |-> "c", stargazerCount |-> 50]
StarC == [nameWithOwner |-> "o/a", name |-> "a", stargazerCount |-> 50]
StarD == [stargazerCount |-> 10]

\* answers of the GitHub API to the starredRepositories query
StarredResponses(u) ==
  IF Rich(u)
    THEN {[nodes |-> n] : n \in SeqsUpTo({StarA, StarB, StarC, StarD}, 3)}
           \cup {[hasNextPage |-> FALSE]}
    ELSE {[nodes |-> n] : n \in {<<>>, <<StarA, StarB, StarC>>, <<StarD>>}}

\* crates the crates.io API may report
CrateA == [name |-> "alpha", downloads |-> 5]
CrateB == [name |-> "beta", downloads |-> 9]
CrateC == [name |-> "gamma", downloads |-> 5]

CratePages(u) ==
  IF Rich(u)
    THEN SeqsUpTo({CrateA, CrateB, CrateC}, 2)
    ELSE {<<>>, <<CrateB, CrateC>>}

\* the url of the first request of the cargo handler
FirstUrl(cfg) ==
  "https://crates.io/api/v1/crates?page=1&per_page=10&sort=alpha&user_id="
    \o cfg.cargoUserId

\* the url that designates page k of the crates listing
PageUrl(k, cfg) == IF k = 1 THEN FirstUrl(cfg) ELSE "?page=" \o ToString(k)

PageIndex(url, cfg) == CHOOSE k \in 1..MaxPages : PageUrl(k, cfg) = url

\* sort=alpha: the listing is in alphabetical order of the crate names
Alphabetical(crates) ==
  \A i \in DOMAIN crates : \A j \in DOMAIN crates :
    i < j => Rank(crates[i].name) <= Rank(crates[j].name)

\* answers of the crates.io API to a GET of url, after it has listed `listed`
CargoResponses(u, url, cfg, listed) ==
  LET k == PageIndex(url, cfg)
      nexts == IF k < MaxPages THEN {Null, PageUrl(k + 1, cfg)} ELSE {Null}
  IN  {[crates |-> c, next_page |-> n] :
         c \in {p \in CratePages(u) : Alphabetical(listed \o p)}, n \in nexts}
      \cup (IF Rich(u) THEN {[next_page |-> Null]} ELSE {})

-----------------------------------------------------------------------------
(* The fetch routines' pure parts *)

\* projects.push({...repo, name, languages, stargazerCount}) of the contributions loop
ContribProject(repo, name) ==
  [nameWithOwner |-> Get(repo, "nameWithOwner"), name |-> name,
   stargazerCount |-> StarsOrZero(repo)]

\* a key that keeps the case of the name
ContribName_KeepsCase(repo) == Or(Get(repo, "nameWithOwner"), Get(repo, "name"))

\* const name = (repo?.nameWithOwner || repo?.name)?.toLowerCase()
ContribName(repo) ==
  LET n == Or(Get(repo, "nameWithOwner"), Get(repo, "name"))
  IN  IF n = Undefined THEN Undefined ELSE toLowerCase(n)

\* a test that lets every named record through
KeepRepo_Always(name, seenNames) == Truthy(name)

\* name && !seenProjects.has(name)
KeepRepo(name, seenNames) == Truthy(name) /\ name \notin seenNames

\* for (const repo of repos) { ... }: the state <<projects, seenProjects>> after it
RECURSIVE PushRepos(_, _, _)
PushRepos(repos, projects, seenNames) ==
  IF repos = <<>> THEN <<projects, seenNames>>
  ELSE LET repo == Head(repos)
           name == ContribName(repo)
       IN  IF KeepRepo(name, seenNames)
             THEN PushRepos(Tail(repos), Append(projects, ContribProject(repo, name)),
                            seenNames \cup {name})
             ELSE PushRepos(Tail(repos), projects, seenNames)

\* a comparator that orders by stars alone
CompareProjects_StarsOnly(a, b) == b.stargazerCount - a.stargazerCount

\* the comparator of projects.sort
CompareProjects(a, b) ==
  IF a.stargazerCount = b.stargazerCount
    THEN localeCompare(toLowerCase(a.name), toLowerCase(b.name))
    ELSE b.stargazerCount - a.stargazerCount

\* a comparator that orders by downloads ascending
ComparePackages_Ascending(a, b) == a.downloads - b.downloads

\* the comparator of packages.sort
ComparePackages(a, b) == b.downloads - a.downloads

Compare(e, a, b) ==
  IF e = "cargo" THEN ComparePackages(a, b) ELSE CompareProjects(a, b)

\* x put into the sorted list s behind every element that does not come after it
RECURSIVE InsertSorted(_, _, _)
InsertSorted(e, x, s) ==
  IF s = <<>> THEN <<x>>
  ELSE IF Compare(e, x, Head(s)) < 0 THEN <<x>> \o s
  ELSE <<Head(s)>> \o InsertSorted(e, x, Tail(s))

\* Array.prototype.sort with the endpoint's comparator: a stable sort
RECURSIVE SortList(_, _)
SortList(e, list) ==
  IF list = <<>> THEN <<>>
  ELSE InsertSorted(e, list[Len(list)], SortList(e, SubSeq(list, 1, Len(list) - 1)))

\* the object the starred handler maps a node to
StarredProject(p) ==
  [nameWithOwner |-> Get(p, "nameWithOwner"),
   name |-> Or(Get(p, "nameWithOwner"), Get(p, "name")),
   stargazerCount |-> StarsOrZero(p)]

\* (response?.data?.user?.starredRepositories?.nodes ?? []).map(...)
StarredProjects(response) ==
  LET nodes == IF Has(response, "nodes") THEN response.nodes ELSE <<>>
  IN  [i \in 1..Len(nodes) |-> StarredProject(nodes[i])]

\* the list a finished fetch routine returns
Finished(e, list) == IF e = "starred" THEN list ELSE SortList(e, list)

-----------------------------------------------------------------------------
(* The store *)

\* REDIS_CACHE_DURATION of ~~/caching, in ticks of the model's clock
REDIS_CACHE_DURATION == 2

NoBody == [none |-> TRUE]
NoFresh == [none |-> TRUE]

\* a read that finds nothing under any key
StoreGet_NeverFinds(st, key) == NoBody

\* kvStore.get resolved: the parsed value, or undefined for an absent key
StoreGet(st, key) ==
  IF st[key] = Absent THEN NoBody ELSE [value |-> JsonParse(st[key].val)]

\* a write that appends the new list to the list already stored
StoreSetex_Merges(st, key, ttl, val) ==
  [st EXCEPT ![key] =
     IF @ = Absent THEN [val |-> val, ttl |-> ttl]
     ELSE [val |-> [json |-> @.val.json \o val.json], ttl |-> ttl]]

\* kvStore.setex applied by the store
StoreSetex(st, key, ttl, val) == [st EXCEPT ![key] = [val |-> val, ttl |-> ttl]]

\* a delete that empties the stored list and keeps the entry
StoreDel_Truncates(st, key) ==
  [st EXCEPT ![key] = IF @ = Absent THEN Absent ELSE [@ EXCEPT !.val = [json |-> <<>>]]]

\* kvStore.del applied by the store
StoreDel(st, key) == [st EXCEPT ![key] = Absent]

\* a clock that counts an entry's time down and never drops the entry
StoreTick_KeepsExpired(st) ==
  [k \in DOMAIN st |->
     IF st[k] = Absent \/ ~Has(st[k], "ttl") THEN st[k]
     ELSE [st[k] EXCEPT !.ttl = @ - 1]]

\* one tick of the store's clock: entries whose time-to-live ends are dropped
StoreTick(st) ==
  [k \in DOMAIN st |->
     IF st[k] = Absent \/ ~Has(st[k], "ttl") THEN st[k]
     ELSE IF st[k].ttl = 1 THEN Absent
     ELSE [st[k] EXCEPT !.ttl = @ - 1]]

\* a store that sets only the access token of an mset
StoreMset_AccessTokenOnly(st, pairs) ==
  [k \in DOMAIN st |->
     IF k \in DOMAIN pairs /\ k = "strava:access_token" THEN [val |-> pairs[k]]
     ELSE st[k]]

\* kvStore.mset applied by the store: every key of the object is set in one step,
\* without a time-to-live
StoreMset(st, pairs) ==
  [k \in DOMAIN st |-> IF k \in DOMAIN pairs THEN [val |-> pairs[k]] ELSE st[k]]

\* kvStore.get<string>(key) resolved: the value, or null
StoreGetString(st, key) == IF st[key] = Absent THEN Null ELSE st[key].val

\* the token response number n of the Strava token endpoint
TokenResponse(n) ==
  [access_token |-> "A" \o ToString(n), refresh_token |-> "R" \o ToString(n)]

\* the athlete of an authorization_code response
Athlete == [id |-> 7, firstname |-> "Ada", lastname |-> "L", username |-> "ada"]

\* the tokens an OAuth callback stored before the behaviour starts
Seeded ==
  [k \in TokenKeys |->
     CASE k = "strava:access_token"  -> "A0"
       [] k = "strava:refresh_token" -> "R0"
       [] k = "strava:athlete_id"    -> Athlete.id]

\* the Strava handlers are explored from a store with and without tokens; the other
\* handlers from a store that holds the tokens of an earlier OAuth callback
StoredBefore(u) == IF u = "strava" THEN {<<>>, Seeded} ELSE {Seeded}

\* a request slot that has run no Strava handler; ghost fields:
\*   readOk  the read of strava:refresh_token resolved
\*   calls   the number of calls of the token endpoint the request made
\*   persisted  the store applied the request's mset
NoAuth == [pc |-> "idle", kind |-> "none", no |-> 0, refreshToken |-> Undefined,
           response |-> NoBody, result |-> NoBody, readOk |-> FALSE, calls |-> 0,
           persisted |-> FALSE]

\* ghost record of the msets:
\*   applied  the arguments of the last mset the store applied
\*   kept     the refresh token (or null) the store held when the mset of a refresh
\*            request was rejected, while no mset has been applied since
NoTokenLog == [applied |-> NoBody, kept |-> Undefined]

\* values of entries that endpoints outside the model have written; they do not
\* expire while the model runs
ForeignValue == [json |-> <<>>]

\* ghost record of a request:
\*   calls     the continuation (url, `after` argument) each upstream call asked for
\*   cont      the continuation each upstream response named (next_page, endCursor)
\*   got       the records received, in order (cargo, starred)
\*   keys      the natural keys of the records received (contributions)
\*   again     a response repeated a natural key of an earlier response
\*   unsorted  the accumulated list before the final sort
\*   setex     the number of setex commands issued
\*   readOk    the store read resolved
\*   gone      the store read found nothing under a key that had been written before
\*   cleared   the key was deleted by the invalidation handler during the fetch
\*   swept     the request is the first to arrive after an invalidation that listed
\*             its key, found nothing in flight and had every delete fulfilled
NoLog == [calls |-> <<>>, cont |-> <<>>, got |-> <<>>, keys |-> {}, again |-> FALSE,
          unsorted |-> <<>>, setex |-> 0, readOk |-> FALSE, gone |-> FALSE,
          cleared |-> FALSE, swept |-> FALSE, first |-> {}]

\* the invalidation request; ghost field quiet: no data request and no store write
\* was in flight when the request arrived, and no data request has started since
IdleInv == [pc |-> "idle", target |-> Undefined, keys |-> <<>>, results |-> <<>>,
            response |-> NoBody, quiet |-> FALSE]

InitWith(u) ==
  /\ universe = u
  /\ config \in ConfigsOf(u)
  /\ \E tokens \in StoredBefore(u) :
       store = [k \in Keys(config) |->
                  IF k \in ForeignKeys(config) THEN [val |-> ForeignValue]
                  ELSE IF k \in DOMAIN tokens THEN [val |-> tokens[k]]
                  ELSE Absent]
  /\ writes = {}
  /\ pc = [r \in Reqs |-> "idle"]
  /\ ep = [r \in Reqs |-> "none"]
  /\ reqNo = [r \in Reqs |-> 0]
  /\ acc = [r \in Reqs |-> <<>>]
  /\ seen = [r \in Reqs |-> {}]
  /\ cursor = [r \in Reqs |-> Null]
  /\ header = [r \in Reqs |-> "none"]
  /\ body = [r \in Reqs |-> NoBody]
  /\ log = [r \in Reqs |-> NoLog]
  /\ started = 0
  /\ lastWritten = [k \in Keys(config) |-> NoBody]
  /\ fresh = NoFresh
  /\ inv = IdleInv
  /\ invCount = 0
  /\ auth = [r \in Reqs |-> NoAuth]
  /\ issued = 0
  /\ tokenLog = NoTokenLog
  /\ responseCache = [e \in Endpoints |-> Absent]

Init == InitWith("system")

-----------------------------------------------------------------------------
(* The data handlers *)

Free(r) == pc[r] \in {"idle", "done", "failed"}

\* maxAge of the cached handlers, in ticks of the model's clock
REQUEST_CACHE_DURATION == 1

\* ghost: an invalidation that listed the key of endpoint e has responded, it found
\* nothing in flight, every delete was fulfilled and no data request arrived since
Swept(e) ==
  /\ inv.pc = "done" /\ inv.quiet
  /\ Has(inv.response, "failed") /\ inv.response.failed = 0
  /\ \E i \in DOMAIN inv.keys : inv.keys[i] = cacheKey(e, config)

\* defineCachedEventHandler(handler, { maxAge }): the response of a handler that
\* returned is kept for maxAge
CacheResponse(r) ==
  responseCache' =
    IF universe = "cached" /\ pc'[r] = "done"
      THEN [responseCache EXCEPT ![ep[r]] =
              [header |-> header'[r], body |-> body'[r], ttl |-> REQUEST_CACHE_DURATION]]
      ELSE responseCache

\* a request for endpoint e arrives while defineCachedEventHandler holds a response
\* of e that is younger than maxAge: the response is sent again, with its headers,
\* and the handler does not run
ServeCached(r, e) ==
  /\ r <= Slots(universe)
  /\ Free(r)
  /\ \A q \in Reqs : q < r => ~Free(q)
  /\ \A q \in Reqs : ep[q] \in {"none", e}
  /\ started < Requests(universe)
  /\ responseCache[e] # Absent
  /\ started' = started + 1
  /\ pc' = [pc EXCEPT ![r] = "done"]
  /\ ep' = [ep EXCEPT ![r] = e]
  /\ reqNo' = [reqNo EXCEPT ![r] = started + 1]
  /\ acc' = [acc EXCEPT ![r] = <<>>]
  /\ seen' = [seen EXCEPT ![r] = {}]
  /\ cursor' = [cursor EXCEPT ![r] = Null]
  /\ header' = [header EXCEPT ![r] = responseCache[e].header]
  /\ body' = [body EXCEPT ![r] = responseCache[e].body]
  /\ log' = [log EXCEPT ![r] = [NoLog EXCEPT !.swept = Swept(e)]]
  /\ inv' = [inv EXCEPT !.quiet = FALSE]
  /\ UNCHANGED <<universe, config, responseCache, store, writes, lastWritten, fresh,
                 invCount, auth, issued, tokenLog>>

\* a request for endpoint e arrives and its handler starts in the lowest free slot;
\* the handlers of different endpoints share no key and no memory, and a behaviour
\* of the model sends its requests to one endpoint
Start(r, e) ==
  /\ r <= Slots(universe)
  /\ Free(r)
  /\ \A q \in Reqs : q < r => ~Free(q)
  /\ \A q \in Reqs : ep[q] \in {"none", e}
  /\ started < Requests(universe)
  /\ responseCache[e] = Absent
  /\ started' = started + 1
  /\ pc' = [pc EXCEPT ![r] = "read"]
  /\ ep' = [ep EXCEPT ![r] = e]
  /\ reqNo' = [reqNo EXCEPT ![r] = started + 1]
  /\ acc' = [acc EXCEPT ![r] = <<>>]
  /\ seen' = [seen EXCEPT ![r] = {}]
  /\ cursor' = [cursor EXCEPT ![r] = Null]
  /\ header' = [header EXCEPT ![r] = "none"]
  /\ body' = [body EXCEPT ![r] = NoBody]
  /\ log' = [log EXCEPT ![r] = [NoLog EXCEPT !.swept = Swept(e)]]
  \* ghost: a data request has started since the invalidation request arrived
  /\ inv' = [inv EXCEPT !.quiet = FALSE]
  /\ UNCHANGED <<universe, config, responseCache, auth, issued, tokenLog, store, writes, lastWritten, fresh, invCount>>

\* a write that is issued for the empty list too
SetexIssued_Always(r, list) ==
  {[key |-> cacheKey(ep[r], config), ttl |-> REDIS_CACHE_DURATION,
    val |-> JsonStringify(list), req |-> reqNo[r]]}

\* if (list.length) kvStore.setex(cacheKey, REDIS_CACHE_DURATION, JSON.stringify(list))
SetexIssued(r, list) ==
  IF Len(list) > 0
    THEN {[key |-> cacheKey(ep[r], config), ttl |-> REDIS_CACHE_DURATION,
           val |-> JsonStringify(list), req |-> reqNo[r]]}
    ELSE {}

\* the end of a miss: sort, setex without awaiting it, header, return
Complete(r, list, lg) ==
  LET final == Finished(ep[r], list) IN
    /\ pc' = [pc EXCEPT ![r] = "done"]
    /\ acc' = [acc EXCEPT ![r] = final]
    /\ seen' = [seen EXCEPT ![r] = {}]
    /\ cursor' = [cursor EXCEPT ![r] = Null]
    /\ writes' = writes \cup SetexIssued(r, final)
    /\ header' = [header EXCEPT ![r] = "miss"]
    /\ body' = [body EXCEPT ![r] = JsonStringify(final)]
    /\ log' = [log EXCEPT ![r] =
                 [lg EXCEPT !.setex = @ + Cardinality(SetexIssued(r, final)),
                            !.unsorted = list]]

\* a hit that labels its response as a miss
ServeHit_SaysMiss(r, cached) ==
  /\ pc' = [pc EXCEPT ![r] = "done"]
  /\ header' = [header EXCEPT ![r] = "miss"]
  /\ body' = [body EXCEPT ![r] = JsonStringify(cached.value)]
  /\ log' = [log EXCEPT ![r].readOk = TRUE]
  /\ UNCHANGED <<acc, seen, cursor, writes>>

\* if (cached) { ...'hit'; return cached }
ServeHit(r, cached) ==
  /\ pc' = [pc EXCEPT ![r] = "done"]
  /\ header' = [header EXCEPT ![r] = "hit"]
  /\ body' = [body EXCEPT ![r] = JsonStringify(cached.value)]
  /\ log' = [log EXCEPT ![r].readOk = TRUE]
  /\ UNCHANGED <<acc, seen, cursor, writes>>

\* a handler that builds the first url whatever the configuration holds
InitialUrl_Always(cfg) == FirstUrl(cfg)

\* let url = config.cargoUserId ? `https://crates.io/...` : null
InitialUrl(cfg) == IF Truthy(cfg.cargoUserId) THEN FirstUrl(cfg) ELSE Null

\* a handler that throws when the store read gave it no value
BeginMiss_Throws(r, ok) ==
  /\ pc' = [pc EXCEPT ![r] = "failed"]
  /\ UNCHANGED <<acc, seen, cursor, header, body, writes, log>>

\* the code between the cache read and the first upstream call
BeginMiss(r, ok) ==
  LET lg == [log[r] EXCEPT !.readOk = ok,
                           !.gone = ok /\ lastWritten[cacheKey(ep[r], config)] # NoBody]
  IN
    IF ep[r] = "cargo" /\ ~Truthy(InitialUrl(config))
      THEN Complete(r, <<>>, lg)
      ELSE /\ pc' = [pc EXCEPT ![r] = "fetch"]
           /\ cursor' = [cursor EXCEPT ![r] =
                           IF ep[r] = "cargo" THEN InitialUrl(config) ELSE Null]
           /\ log' = [log EXCEPT ![r] = lg]
           /\ UNCHANGED <<acc, seen, header, body, writes>>

\* const cached = await kvStore.get(cacheKey).catch(() => undefined), and what follows
Read(r) ==
  /\ pc[r] = "read"
  /\ \E ok \in BOOLEAN :
       LET cached == IF ok THEN StoreGet(store, cacheKey(ep[r], config)) ELSE NoBody
       IN  IF Has(cached, "value") THEN ServeHit(r, cached) ELSE BeginMiss(r, ok)
  /\ CacheResponse(r)
  /\ UNCHANGED <<universe, config, auth, issued, tokenLog, store, ep, reqNo, started, lastWritten, fresh,
                 inv, invCount>>


\* a fetch that waits while a request in a lower slot is fetching
Fetching_SingleFlight(r, e) ==
  /\ pc[r] = "fetch" /\ ep[r] = e /\ Len(log[r].calls) < MaxCalls
  /\ \A q \in Reqs : q < r => pc[q] # "fetch"

\* request r of endpoint e is about to make an upstream call
Fetching(r, e) == pc[r] = "fetch" /\ ep[r] = e /\ Len(log[r].calls) < MaxCalls

\* the natural key of a repository: its full name, or else its name, ignoring case
NaturalKey(repo) == toLowerCase(Or(Get(repo, "nameWithOwner"), Get(repo, "name")))

\* the records of a response that are the first the routine meets under their
\* natural key, `known` being the keys of the earlier responses
FirstSeen(records, known) ==
  {records[i] : i \in {i \in DOMAIN records :
                         /\ Truthy(NaturalKey(records[i]))
                         /\ NaturalKey(records[i]) \notin known
                         /\ \A j \in 1..(i - 1) :
                              NaturalKey(records[j]) # NaturalKey(records[i])}}

\* ghost: an upstream call that asked for `asked` and was answered with `records`
\* and the continuation `token`
Called(r, asked, records, token) ==
  LET ks == {NaturalKey(records[i]) : i \in DOMAIN records} IN
    [log[r] EXCEPT !.calls = Append(@, asked), !.cont = Append(@, token),
                   !.first = IF ep[r] = "contributions"
                               THEN @ \cup FirstSeen(records, log[r].keys)
                               ELSE @,
                   !.got = IF ep[r] = "contributions" THEN @ ELSE @ \o records,
                   !.keys = IF ep[r] = "contributions" THEN @ \cup ks ELSE @,
                   !.again = IF ep[r] = "contributions"
                               THEN @ \/ \E k \in ks \cap log[r].keys : Truthy(k)
                               ELSE @]

\* a continuation that is never taken
NextUrl_Never(response) == Null

\* url = response?.meta?.next_page
NextUrl(response) == response.next_page

\* one turn of while (url) { response = await $fetch(url); ...; url = next_page }
FetchCargo(r) ==
  /\ Fetching(r, "cargo")
  /\ \E response \in CargoResponses(universe, cursor[r], config, log[r].got) :
       LET crates == IF Has(response, "crates") THEN response.crates ELSE <<>>
           packages == acc[r] \o crates
           url == NextUrl(response)
           lg == Called(r, cursor[r], crates, response.next_page)
       IN  IF Truthy(url)
             THEN /\ acc' = [acc EXCEPT ![r] = packages]
                  /\ cursor' = [cursor EXCEPT ![r] = url]
                  /\ log' = [log EXCEPT ![r] = lg]
                  /\ UNCHANGED <<pc, seen, header, body, writes>>
             ELSE Complete(r, packages, lg)
  /\ CacheResponse(r)
  /\ UNCHANGED <<universe, config, auth, issued, tokenLog, store, ep, reqNo, started, lastWritten,
                 fresh, inv, invCount>>

\* the `after` argument of the repositoriesContributedTo query the handler sends:
\* the query text names privacy, first, orderBy, contributionTypes and
\* includeUserRepositories, and no cursor
ContribQueryAfter(c) == Null

\* one turn of do { response = await $fetch(graphql); ... } while (cursor)
FetchContributions(r) ==
  /\ Fetching(r, "contributions")
  /\ \E response \in ContribResponses(universe, ContribQueryAfter(cursor[r])) :
       LET repos == IF Has(response, "nodes") THEN response.nodes ELSE <<>>
           pushed == PushRepos(repos, acc[r], seen[r])
           next == IF response.hasNextPage THEN Or(response.endCursor, Null) ELSE cursor[r]
           lg == Called(r, ContribQueryAfter(cursor[r]), repos, response.endCursor)
       IN  IF response.hasNextPage /\ Truthy(next)
                THEN /\ acc' = [acc EXCEPT ![r] = pushed[1]]
                     /\ seen' = [seen EXCEPT ![r] = pushed[2]]
                     /\ cursor' = [cursor EXCEPT ![r] = next]
                     /\ log' = [log EXCEPT ![r] = lg]
                     /\ UNCHANGED <<pc, header, body, writes>>
                ELSE Complete(r, pushed[1], lg)
  /\ CacheResponse(r)
  /\ UNCHANGED <<universe, config, auth, issued, tokenLog, store, ep, reqNo, started, lastWritten, fresh,
                 inv, invCount>>

\* const response = await $fetch(graphql) of the starred handler, and what follows
FetchStarred(r) ==
  /\ Fetching(r, "starred")
  /\ \E response \in StarredResponses(universe) :
       LET nodes == IF Has(response, "nodes") THEN response.nodes ELSE <<>>
       IN  Complete(r, StarredProjects(response), Called(r, Null, nodes, Null))
  /\ CacheResponse(r)
  /\ UNCHANGED <<universe, config, auth, issued, tokenLog, store, ep, reqNo, started,
                 lastWritten, fresh, inv, invCount>>

\* a handler that answers a rejected upstream call with what it has so far
FetchFail_ReturnsPartial(r) ==
  /\ pc[r] = "fetch"
  /\ Len(log[r].calls) < MaxCalls
  /\ Complete(r, acc[r], [log[r] EXCEPT !.calls = Append(@, cursor[r])])
  /\ CacheResponse(r)
  /\ UNCHANGED <<universe, config, auth, issued, tokenLog, store, ep, reqNo, started, lastWritten, fresh,
                 inv, invCount>>

\* an upstream call rejects: the handler throws
FetchFail(r) ==
  /\ pc[r] = "fetch"
  /\ Len(log[r].calls) < MaxCalls
  /\ pc' = [pc EXCEPT ![r] = "failed"]
  /\ log' = [log EXCEPT ![r].calls = Append(@, IF ep[r] = "contributions"
                                                   THEN ContribQueryAfter(cursor[r])
                                                   ELSE cursor[r])]
  /\ UNCHANGED <<universe, config, responseCache, auth, issued, tokenLog, store, writes, ep, reqNo, acc, seen, cursor,
                 header, body, started, lastWritten, fresh, inv, invCount>>

-----------------------------------------------------------------------------
(* The store settling the writes of the data handlers, and time *)

Settled(w) == IF w.key = "github:starred" /\ fresh = NoFresh
                THEN [val |-> w.val, ttl |-> w.ttl, over |-> FALSE]
              ELSE IF w.key = "github:starred"
                THEN [fresh EXCEPT !.over = TRUE]
              ELSE fresh

\* the store applies a setex
WriteApply(w) ==
  /\ w \in writes
  /\ store' = StoreSetex(store, w.key, w.ttl, w.val)
  /\ writes' = writes \ {w}
  /\ lastWritten' = [lastWritten EXCEPT ![w.key] = w.val]
  /\ fresh' = Settled(w)
  /\ UNCHANGED <<universe, config, responseCache, auth, issued, tokenLog, pc, ep, reqNo, acc, seen, cursor, header, body,
                 log, started, inv, invCount>>

\* a rejected setex that takes the old entry with it
WriteFail_Clears(w) ==
  /\ w \in writes
  /\ writes' = writes \ {w}
  /\ store' = StoreDel(store, w.key)
  /\ UNCHANGED <<universe, config, responseCache, auth, issued, tokenLog, pc, ep, reqNo, acc, seen, cursor, header,
                 body, log, started, lastWritten, fresh, inv, invCount>>

\* a setex rejects: .catch(() => undefined)
WriteFail(w) ==
  /\ w \in writes
  /\ writes' = writes \ {w}
  /\ UNCHANGED <<universe, config, responseCache, auth, issued, tokenLog, store, pc, ep, reqNo, acc, seen, cursor, header,
                 body, log, started, lastWritten, fresh, inv, invCount>>

\* one tick of the clock of the response cache: a response as old as maxAge is
\* no longer served
TickResponses(cache) ==
  [e \in DOMAIN cache |->
     IF cache[e] = Absent THEN Absent
     ELSE IF cache[e].ttl = 1 THEN Absent
     ELSE [cache[e] EXCEPT !.ttl = @ - 1]]

\* time passes
Tick ==
  /\ \/ \E k \in DOMAIN store : store[k] # StoreTick(store)[k]
     \/ responseCache # TickResponses(responseCache)
  /\ store' = StoreTick(store)
  /\ fresh' = IF fresh = NoFresh THEN NoFresh
              ELSE IF fresh.ttl = 1 THEN NoFresh
              ELSE [fresh EXCEPT !.ttl = @ - 1]
  /\ responseCache' = TickResponses(responseCache)
  /\ UNCHANGED <<universe, config, auth, issued, tokenLog, writes, pc, ep, reqNo,
                 acc, seen, cursor, header, body, log, started, lastWritten, inv,
                 invCount>>

-----------------------------------------------------------------------------
(* The invalidation handler *)

\* query.target values of the model; Undefined is a request without target
Targets ==
  {"github", "strava", "wakatime", "npm", "leetcode", "all", "foo", "toString",
   "constructor", "", Undefined}

\* properties every object inherits from Object.prototype, among the targets
ObjectPrototypeKeys == {"toString", "constructor"}

\* Object.keys(cacheKeys)
ObjectKeys == Services

\* target in cacheKeys: own and inherited properties
In(t, cfg) == t \in Range(ObjectKeys) \cup ObjectPrototypeKeys

\* the key list of the first service only
FlatValues_FirstOnly(names, cfg) == cacheKeys(cfg)[Head(names)]

\* Object.values(cacheKeys).flat()
RECURSIVE FlatValues(_, _)
FlatValues(names, cfg) ==
  IF names = <<>> THEN <<>>
  ELSE cacheKeys(cfg)[Head(names)] \o FlatValues(Tail(names), cfg)

\* keysToDelete after the if / else if / else of the handler
KeysToDelete(t, cfg) ==
  IF Truthy(t) /\ In(t, cfg)
    THEN IF t \in Range(ObjectKeys)
           THEN [keys |-> cacheKeys(cfg)[t]]
           ELSE [inherited |-> t]
  ELSE IF t = "all" THEN [keys |-> FlatValues(ObjectKeys, cfg)]
  ELSE [invalid |-> TRUE]

\* the object returned for a target that is not accepted
ErrorResponse ==
  [error |-> "Invalid target. Use: github, strava, wakatime, npm, leetcode, or all",
   available |-> ObjectKeys \o <<"all">>]

\* an invalidation request arrives; the handler runs up to await Promise.allSettled
InvStart(t) ==
  /\ universe \in {"system", "cached"}
  /\ inv.pc \in {"idle", "done", "failed"}
  /\ invCount < MaxInvalidations
  /\ invCount' = invCount + 1
  /\ LET k == KeysToDelete(t, config)
         arrived == [IdleInv EXCEPT !.target = t,
                                    !.quiet = writes = {} /\ \A r \in Reqs : Free(r)]
     IN
       inv' = IF Has(k, "invalid")
                THEN [arrived EXCEPT !.pc = "done", !.response = ErrorResponse]
              ELSE IF Has(k, "inherited")
                \* keysToDelete.map is not a function
                THEN [arrived EXCEPT !.pc = "failed",
                                     !.response = [threw |-> "TypeError"]]
              ELSE [arrived EXCEPT !.pc = "deleting", !.keys = k.keys,
                                   !.results = [i \in DOMAIN k.keys |-> "pending"]]
  /\ UNCHANGED <<universe, config, responseCache, auth, issued, tokenLog, store, writes, pc, ep, reqNo, acc, seen, cursor,
                 header, body, log, started, lastWritten, fresh>>

\* a tally that counts every result
Count_Length(results, status) == Len(results)

\* results.filter((r) => r.status === status).length
Count(results, status) == Cardinality({i \in DOMAIN results : results[i] = status})

\* a delete that waits until no data request is fetching
InvSettle_WaitsForFetches(i, ok) ==
  /\ \A r \in Reqs : pc[r] # "fetch"
  /\ inv.pc = "deleting"
  /\ i \in DOMAIN inv.results
  /\ inv.results[i] = "pending"
  /\ \A j \in DOMAIN inv.results : j < i => inv.results[j] # "pending"
  /\ ok \/ Count(inv.results, "rejected") < MaxDelFailures
  /\ inv' = [inv EXCEPT !.results[i] = IF ok THEN "fulfilled" ELSE "rejected"]
  /\ store' = IF ok THEN StoreDel(store, inv.keys[i]) ELSE store
  /\ fresh' = IF ok /\ inv.keys[i] = "github:starred" THEN NoFresh ELSE fresh
  /\ log' = [r \in Reqs |->
               IF ok /\ pc[r] = "fetch" /\ cacheKey(ep[r], config) = inv.keys[i]
                 THEN [log[r] EXCEPT !.cleared = TRUE]
                 ELSE log[r]]
  /\ UNCHANGED <<universe, config, responseCache, auth, issued, tokenLog, writes, pc, ep, reqNo, acc, seen, cursor, header,
                 body, started, lastWritten, invCount>>

\* one kvStore.del(key) settles: the store deletes the key, or the call rejects.
\* The deletes are issued together and settle one by one; deletes of different keys
\* commute and every other step reads or writes one key, so the model settles them
\* in the order of keysToDelete
InvSettle(i, ok) ==
  /\ inv.pc = "deleting"
  /\ i \in DOMAIN inv.results
  /\ inv.results[i] = "pending"
  /\ \A j \in DOMAIN inv.results : j < i => inv.results[j] # "pending"
  /\ ok \/ Count(inv.results, "rejected") < MaxDelFailures
  /\ inv' = [inv EXCEPT !.results[i] = IF ok THEN "fulfilled" ELSE "rejected"]
  /\ store' = IF ok THEN StoreDel(store, inv.keys[i]) ELSE store
  /\ fresh' = IF ok /\ inv.keys[i] = "github:starred" THEN NoFresh ELSE fresh
  /\ log' = [r \in Reqs |->
               IF ok /\ pc[r] = "fetch" /\ cacheKey(ep[r], config) = inv.keys[i]
                 THEN [log[r] EXCEPT !.cleared = TRUE]
                 ELSE log[r]]
  /\ UNCHANGED <<universe, config, responseCache, auth, issued, tokenLog, writes, pc, ep, reqNo, acc, seen, cursor, header,
                 body, started, lastWritten, invCount>>

\* Promise.allSettled resolved: count and respond
InvRespond ==
  /\ inv.pc = "deleting"
  /\ \A i \in DOMAIN inv.results : inv.results[i] # "pending"
  /\ inv' = [inv EXCEPT !.pc = "done",
               !.response = [success |-> TRUE,
                             message |-> "Cache invalidation completed for: " \o inv.target,
                             deleted |-> Count(inv.results, "fulfilled"),
                             failed |-> Count(inv.results, "rejected"),
                             keys |-> inv.keys]]
  /\ UNCHANGED <<universe, config, responseCache, auth, issued, tokenLog, store, writes, pc, ep, reqNo, acc, seen, cursor,
                 header, body, log, started, lastWritten, fresh, invCount>>

-----------------------------------------------------------------------------
(* The Strava token handlers: the refresh handler (refresh/index.post.ts), the     *)
(* refresh handler without fallback, and the OAuth callback                       *)

AuthHandlers == {"refresh", "refreshNoFallback", "callback"}

\* the query of a callback request: ?code=... or none
Codes == {Null, "code"}

AuthFree(r) == auth[r].pc \in {"idle", "done", "failed"}

\* the number of Strava requests started so far
AuthStarted ==
  CHOOSE n \in 0..MaxAuth : (\A r \in Reqs : auth[r].no <= n) /\ (\E r \in Reqs : n = 0 \/ auth[r].no = n)

\* a check that looks at the client id only
NotConfigured_IdOnly(cfg) == ~Truthy(cfg.stravaClientId)

\* if (!config.stravaClientId || !config.stravaClientSecret) return {...}
NotConfigured(cfg) == ~Truthy(cfg.stravaClientId) \/ ~Truthy(cfg.stravaClientSecret)

Returned(a, value) == [a EXCEPT !.pc = "done", !.result = value]

Threw(a, error) == [a EXCEPT !.pc = "failed", !.result = [threw |-> error]]

\* a request for a Strava handler arrives; the handler runs up to its first await
AuthStart(r, kind, code) ==
  /\ universe = "strava"
  /\ r <= Slots(universe)
  /\ AuthFree(r)
  /\ \A q \in Reqs : q < r => ~AuthFree(q)
  /\ AuthStarted < MaxAuth
  /\ kind # "callback" => code = Null
  /\ LET a == [NoAuth EXCEPT !.kind = kind, !.no = AuthStarted + 1] IN
       auth' = [auth EXCEPT ![r] =
                  IF kind = "callback"
                    THEN IF code = Null
                           THEN Threw(a, "TypeError: Code is not set")
                           ELSE [a EXCEPT !.pc = "exchange"]
                  ELSE IF NotConfigured(config)
                    THEN Returned(a, [access_token |-> Null,
                                      error |-> "Strava not configured"])
                  ELSE [a EXCEPT !.pc = "get"]]
  /\ UNCHANGED <<universe, config, responseCache, store, writes, pc, ep, reqNo, acc, seen, cursor,
                 header, body, log, started, lastWritten, fresh, inv, invCount,
                 issued, tokenLog>>

\* a fallback that is preferred to the token read from the store
Fallback_PrefersDefault(value, cfg) ==
  IF Truthy(cfg.stravaRefreshToken) THEN cfg.stravaRefreshToken ELSE value

\* if (!refreshToken && config.stravaRefreshToken) refreshToken = config.stravaRefreshToken
Fallback(value, cfg) ==
  IF ~Truthy(value) /\ Truthy(cfg.stravaRefreshToken) THEN cfg.stravaRefreshToken
  ELSE value

\* a read whose rejection reaches the caller
RefreshRead_Rethrows(a, st, ok) ==
  IF ok THEN [a EXCEPT !.refreshToken = StoreGetString(st, "strava:refresh_token"),
                       !.readOk = TRUE]
        ELSE Threw(a, "store error")

\* let refreshToken = await kvStore.get('strava:refresh_token').catch(() => undefined)
RefreshRead(a, st, ok) ==
  [a EXCEPT !.refreshToken = IF ok THEN StoreGetString(st, "strava:refresh_token")
                                   ELSE Undefined,
            !.readOk = ok]

\* const refreshToken = await kvStore.get('strava:refresh_token'): no catch
NoFallbackRead(a, st, ok) ==
  IF ok THEN [a EXCEPT !.refreshToken = StoreGetString(st, "strava:refresh_token"),
                       !.readOk = TRUE]
        ELSE Threw(a, "store error")

\* a handler that sends the token request whatever it holds as refresh token
SendOrGiveUp_SendsAnyway(a) ==
  IF a.pc = "failed" THEN a ELSE [a EXCEPT !.pc = "exchange"]

\* if (!refreshToken) return {...}; otherwise the token request is sent
SendOrGiveUp(a) ==
  IF a.pc = "failed" THEN a
  ELSE IF ~Truthy(a.refreshToken)
    THEN Returned(a, [access_token |-> Null, error |-> "Refresh token not found"])
  ELSE [a EXCEPT !.pc = "exchange"]

\* a refresh that reads the store only while no other request holds a token request
RefreshGet_SingleFlight(r) ==
  /\ \A q \in Reqs : q # r => auth[q].pc \notin {"exchange", "mset"}
  /\ auth[r].pc = "get" /\ auth[r].kind = "refresh"
  /\ \E ok \in BOOLEAN :
       LET a == RefreshRead(auth[r], store, ok) IN
         auth' = [auth EXCEPT ![r] =
                    SendOrGiveUp([a EXCEPT !.refreshToken = Fallback(@, config)])]
  /\ UNCHANGED <<universe, config, responseCache, store, writes, pc, ep, reqNo, acc, seen, cursor,
                 header, body, log, started, lastWritten, fresh, inv, invCount,
                 issued, tokenLog>>

\* the read of the refresh handler resolves or rejects, and the code up to $fetch
RefreshGet(r) ==
  /\ auth[r].pc = "get" /\ auth[r].kind = "refresh"
  /\ \E ok \in BOOLEAN :
       LET a == RefreshRead(auth[r], store, ok) IN
         auth' = [auth EXCEPT ![r] =
                    SendOrGiveUp([a EXCEPT !.refreshToken = Fallback(@, config)])]
  /\ UNCHANGED <<universe, config, responseCache, store, writes, pc, ep, reqNo, acc, seen, cursor,
                 header, body, log, started, lastWritten, fresh, inv, invCount,
                 issued, tokenLog>>

\* the read of the handler without fallback resolves or rejects, and the code up to
\* $fetch: a rejected read throws
NoFallbackGet(r) ==
  /\ auth[r].pc = "get" /\ auth[r].kind = "refreshNoFallback"
  /\ \E ok \in BOOLEAN :
       auth' = [auth EXCEPT ![r] = SendOrGiveUp(NoFallbackRead(auth[r], store, ok))]
  /\ UNCHANGED <<universe, config, responseCache, store, writes, pc, ep, reqNo, acc, seen, cursor,
                 header, body, log, started, lastWritten, fresh, inv, invCount,
                 issued, tokenLog>>

\* the token endpoint answers the request of a handler with a new pair of tokens
ExchangeOk(r) ==
  /\ auth[r].pc = "exchange"
  /\ issued < MaxIssued
  /\ issued' = issued + 1
  /\ \E athlete \in {<<>>, [athlete |-> Athlete]} :
       LET response == TokenResponse(issued + 1) @@ athlete
           a == [auth[r] EXCEPT !.response = response, !.calls = @ + 1]
       IN  /\ auth[r].kind # "callback" => athlete = <<>>
           /\ auth' = [auth EXCEPT ![r] =
                         IF a.kind = "callback" /\ ~Has(response, "athlete")
                           THEN Threw(a, "Error: Failed to authenticate with Strava")
                           ELSE [a EXCEPT !.pc = "mset"]]
  /\ UNCHANGED <<universe, config, responseCache, store, writes, pc, ep, reqNo, acc, seen, cursor,
                 header, body, log, started, lastWritten, fresh, inv, invCount,
                 tokenLog>>

\* a handler that asks the token endpoint again after a rejected call
ExchangeFail_Retries(r) ==
  /\ auth[r].pc = "exchange"
  /\ auth[r].calls < MaxIssued
  /\ auth' = [auth EXCEPT ![r].calls = @ + 1]
  /\ UNCHANGED <<universe, config, responseCache, store, writes, pc, ep, reqNo, acc, seen, cursor,
                 header, body, log, started, lastWritten, fresh, inv, invCount,
                 issued, tokenLog>>

\* the token request rejects: .catch((err) => { throw err }), or no catch at all
ExchangeFail(r) ==
  /\ auth[r].pc = "exchange"
  /\ auth' = [auth EXCEPT ![r] = Threw([@ EXCEPT !.calls = @ + 1], "upstream error")]
  /\ UNCHANGED <<universe, config, responseCache, store, writes, pc, ep, reqNo, acc, seen, cursor,
                 header, body, log, started, lastWritten, fresh, inv, invCount,
                 issued, tokenLog>>

\* the object a handler passes to kvStore.mset
MsetArgs(a) ==
  LET pair == [k \in {"strava:access_token", "strava:refresh_token"} |->
                 IF k = "strava:access_token" THEN a.response.access_token
                 ELSE a.response.refresh_token]
  IN  IF a.kind = "callback"
        THEN pair @@ [k \in {"strava:athlete_id"} |-> a.response.athlete.id]
        ELSE pair

\* a callback that fails its request when the store write fails
AfterMset_CallbackThrows(a, ok) ==
  CASE a.kind = "refresh" -> Returned(a, [access_token |-> a.response.access_token])
    [] a.kind = "refreshNoFallback" ->
         IF ok THEN Returned(a, [access_token |-> a.response.access_token])
               ELSE Threw(a, "store error")
    [] a.kind = "callback" ->
         IF ~ok THEN Threw(a, "store error")
         ELSE
         Returned(a, [success |-> TRUE,
                      athlete |-> [id |-> a.response.athlete.id,
                                   name |-> a.response.athlete.firstname \o " "
                                              \o a.response.athlete.lastname,
                                   username |-> a.response.athlete.username],
                      message |-> "Successfully authenticated with Strava!"])

\* what a handler does once its mset has settled
AfterMset(a, ok) ==
  CASE a.kind = "refresh" -> Returned(a, [access_token |-> a.response.access_token])
    [] a.kind = "refreshNoFallback" ->
         IF ok THEN Returned(a, [access_token |-> a.response.access_token])
               ELSE Threw(a, "store error")
    [] a.kind = "callback" ->
         Returned(a, [success |-> TRUE,
                      athlete |-> [id |-> a.response.athlete.id,
                                   name |-> a.response.athlete.firstname \o " "
                                              \o a.response.athlete.lastname,
                                   username |-> a.response.athlete.username],
                      message |-> "Successfully authenticated with Strava!"])

\* ghost: the record of the msets after the mset of request a settled
Logged(a, ok) ==
  IF ok THEN [applied |-> MsetArgs(a), kept |-> Undefined]
  ELSE IF a.kind = "refresh"
    THEN [tokenLog EXCEPT !.kept = StoreGetString(store, "strava:refresh_token")]
  ELSE tokenLog

\* a failed mset that takes the stored tokens with it
MsetSettle_FailureClears(r, ok) ==
  /\ auth[r].pc = "mset"
  /\ store' = IF ok THEN StoreMset(store, MsetArgs(auth[r]))
              ELSE [k \in DOMAIN store |-> IF k \in TokenKeys THEN Absent ELSE store[k]]
  /\ tokenLog' = Logged(auth[r], ok)
  /\ auth' = [auth EXCEPT ![r] = [AfterMset(@, ok) EXCEPT !.persisted = ok]]
  /\ UNCHANGED <<universe, config, responseCache, writes, pc, ep, reqNo, acc, seen, cursor,
                 header, body, log, started, lastWritten, fresh, inv, invCount,
                 issued>>

\* await kvStore.mset({...}) settles: the store sets the keys, or the call rejects
MsetSettle(r, ok) ==
  /\ auth[r].pc = "mset"
  /\ store' = IF ok THEN StoreMset(store, MsetArgs(auth[r])) ELSE store
  /\ tokenLog' = Logged(auth[r], ok)
  /\ auth' = [auth EXCEPT ![r] = [AfterMset(@, ok) EXCEPT !.persisted = ok]]
  /\ UNCHANGED <<universe, config, responseCache, writes, pc, ep, reqNo, acc, seen, cursor,
                 header, body, log, started, lastWritten, fresh, inv, invCount,
                 issued>>

-----------------------------------------------------------------------------
(* Specifications *)

RequestStep(r) ==
  \/ \E e \in Endpoints : Start(r, e)
  \/ Read(r)
  \/ FetchCargo(r)
  \/ FetchContributions(r)
  \/ FetchStarred(r)
  \/ FetchFail(r)

StoreStep ==
  \/ \E w \in writes : WriteApply(w)
  \/ \E w \in writes : WriteFail(w)
  \/ Tick

InvalidationStep ==
  \/ \E t \in Targets : InvStart(t)
  \/ \E i \in DOMAIN inv.results, ok \in BOOLEAN : InvSettle(i, ok)
  \/ InvRespond

DataNext ==
  \/ \E r \in Reqs : RequestStep(r)
  \/ StoreStep

Next ==
  \/ DataNext
  \/ InvalidationStep

\* the system: data requests one at a time, invalidation requests, the store, time
Spec == Init /\ [][Next]_vars

InitRace == InitWith("race")

\* concurrent data requests, the store, time
SpecRace == InitRace /\ [][DataNext]_vars

InitRoutine == InitWith("routine")

\* one data request at a time over the large set of upstream responses
SpecRoutine == InitRoutine /\ [][DataNext]_vars

\* the upstream answers every call the cargo handler awaits
SpecRoutineFair == SpecRoutine /\ \A r \in Reqs : WF_vars(FetchCargo(r))

InitCached == InitWith("cached")

NextCached ==
  \/ Next
  \/ \E r \in Reqs, e \in Endpoints : ServeCached(r, e)

\* the system behind the response cache of defineCachedEventHandler
SpecCached == InitCached /\ [][NextCached]_vars

AuthStep(r) ==
  \/ \E kind \in AuthHandlers, code \in Codes : AuthStart(r, kind, code)
  \/ RefreshGet(r)
  \/ NoFallbackGet(r)
  \/ ExchangeOk(r)
  \/ ExchangeFail(r)
  \/ \E ok \in BOOLEAN : MsetSettle(r, ok)

AuthNext == \E r \in Reqs : AuthStep(r)

InitStrava == InitWith("strava")

\* concurrent requests to the Strava token handlers, the token endpoint, the store
SpecStrava == InitStrava /\ [][AuthNext]_vars

-----------------------------------------------------------------------------
(* Claims *)

Key(r) == cacheKey(ep[r], config)

Missed(r) == pc[r] = "fetch" \/ (pc[r] \in {"done", "failed"} /\ header[r] # "hit")

\* the number of elements of s that equal x
Occurrences(s, x) == Cardinality({i \in DOMAIN s : s[i] = x})

IsPermutation(a, b) ==
  /\ Len(a) = Len(b)
  /\ \A x \in Range(a) \cup Range(b) : Occurrences(a, x) = Occurrences(b, x)

\* C1: on every endpoint, a request that finds a value under its cache key responds
\* with exactly the JSON text the last applied setex wrote under that key: the same
\* records in the same order.
C1_HitReturnsLastWritten ==
  [][\A r \in Reqs :
       (pc[r] = "read" /\ header'[r] = "hit") => body'[r] = lastWritten[Key(r)]]_vars

\* a third request is served from the store after two earlier requests
C1_Witness ==
  \E r \in Reqs :
    /\ pc[r] = "done" /\ header[r] = "hit" /\ reqNo[r] = 3
    /\ body[r] = lastWritten[Key(r)]
    /\ Len(body[r].json) > 0

\* the continuation a handler's first upstream call asks for
FirstContinuation(r) == IF ep[r] = "cargo" THEN FirstUrl(config) ELSE Null

\* C2: a request that missed the store performs exactly one upstream fetch sequence
\* (it starts the pagination once: it never asks for the first page again, and a
\* finished miss has asked for it) and issues at most one store write.
C2_OneFetchSequenceOneWrite ==
  \A r \in Reqs :
    Missed(r) =>
      /\ Occurrences(log[r].calls, FirstContinuation(r)) <= 1
      /\ pc[r] = "done" => Occurrences(log[r].calls, FirstContinuation(r)) = 1
      /\ log[r].setex <= 1
      /\ Cardinality({w \in writes : w.req = reqNo[r]}) <= 1

\* a starred read made while a settled write is neither expired nor invalidated
StarredReadWhileFresh(r) == pc[r] = "read" /\ ep[r] = "starred" /\ fresh # NoFresh

\* C3 as stated: once the write of a starred miss has completed, every later starred
\* request made before that entry expires or is invalidated returns the same records
\* in the same order and makes no upstream call.
C3_LaterRequestsServedFromStore ==
  [][\A r \in Reqs :
       StarredReadWhileFresh(r) =>
         /\ header'[r] = "hit" /\ pc'[r] = "done"
         /\ body'[r] = fresh.val]_vars

\* C3 amended: ... every later starred request whose store read succeeds, made before
\* that entry expires, is invalidated or is overwritten by another miss's write,
\* returns the same records in the same order and makes no upstream call.
C3_LaterReadsOfUntouchedEntry ==
  [][\A r \in Reqs :
       (StarredReadWhileFresh(r) /\ ~fresh.over /\ log'[r].readOk) =>
         /\ header'[r] = "hit" /\ pc'[r] = "done"
         /\ body'[r] = fresh.val
         /\ log'[r].calls = <<>>]_vars

\* a later starred request was served the three records of the settled write
C3_Witness ==
  \E r \in Reqs :
    /\ ep[r] = "starred" /\ pc[r] = "done" /\ header[r] = "hit"
    /\ fresh # NoFresh /\ ~fresh.over
    /\ body[r] = fresh.val /\ Len(body[r].json) = 3
    /\ log[r].calls = <<>>


-----------------------------------------------------------------------------
(* Claims about the fetch routines *)

FinishedMiss(r, e) == pc[r] = "done" /\ header[r] = "miss" /\ ep[r] = e

\* the popularity key of a record
Popularity(x) == IF Has(x, "downloads") THEN x.downloads ELSE x.stargazerCount

\* x may stand directly before y in a list ordered by popularity descending, ties
\* by case-insensitive name ascending
InOrder(x, y) ==
  \/ Popularity(x) > Popularity(y)
  \/ /\ Popularity(x) = Popularity(y)
     /\ (Has(x, "name") /\ Has(y, "name")) =>
          Rank(toLowerCase(x.name)) <= Rank(toLowerCase(y.name))

SortedByPopularityThenName(list) ==
  \A i \in DOMAIN list : \A j \in DOMAIN list : i < j => InOrder(list[i], list[j])

\* the setex the request issued carries the list it returned
StoredAsReturned(r) == \A w \in writes : w.req = reqNo[r] => w.val = body[r]

StrictlyBefore(x, y) ==
  \/ x.stargazerCount > y.stargazerCount
  \/ /\ x.stargazerCount = y.stargazerCount
     /\ Rank(toLowerCase(x.name)) < Rank(toLowerCase(y.name))

\* C5: the list the contributions routine returns is a permutation of the
\* de-duplicated records, ordered by stargazerCount descending and, among equal
\* counts, by case-insensitive name ascending; the order is strict, so it is the one
\* order of those records whatever order they arrived in.
C5_ContributionsTotalOrder ==
  \A r \in Reqs :
    FinishedMiss(r, "contributions") =>
      /\ IsPermutation(acc[r], log[r].unsorted)
      /\ \A i \in DOMAIN acc[r] : \A j \in DOMAIN acc[r] :
           i < j => StrictlyBefore(acc[r][i], acc[r][j])
      /\ body[r] = JsonStringify(acc[r])

\* two records with 50 stars arrived as cd/y, ab/x and were returned as ab/x, cd/y
C5_Witness ==
  \E r \in Reqs :
    /\ FinishedMiss(r, "contributions")
    /\ Len(acc[r]) >= 2 /\ Len(log[r].unsorted) >= 2
    /\ log[r].unsorted[1].name = "cd/y" /\ log[r].unsorted[2].name = "ab/x"
    /\ acc[r][1].name = "ab/x" /\ acc[r][2].name = "cd/y"
    /\ acc[r][1].stargazerCount = acc[r][2].stargazerCount

\* C6: in the contributions routine, records whose full name (or else name) is equal
\* ignoring case, on one page or on several, appear exactly once in the merged list.
C6_EachKeyOnce ==
  \A r \in Reqs :
    ep[r] = "contributions" /\ pc[r] \in {"fetch", "done"} /\ header[r] # "hit" =>
      LET list == IF pc[r] = "done" THEN log[r].unsorted ELSE acc[r] IN
        \A k \in log[r].keys :
          Truthy(k) => Cardinality({i \in DOMAIN list : toLowerCase(list[i].name) = k}) = 1

\* a record came again in a later response, in another case on the same page too,
\* and the merged list holds it once
C6_Witness ==
  \E r \in Reqs :
    /\ FinishedMiss(r, "contributions")
    /\ log[r].again /\ Len(log[r].calls) >= 2
    /\ "ab/x" \in log[r].keys
    /\ Cardinality({i \in DOMAIN acc[r] : acc[r][i].name = "ab/x"}) = 1

\* C7: every upstream call of the contributions routine after the first asks for the
\* page that follows the endCursor of the previous response.
C7_FollowsCursor ==
  \A r \in Reqs :
    ep[r] = "contributions" =>
      \A i \in DOMAIN log[r].calls :
        i > 1 => log[r].calls[i] = log[r].cont[i - 1]

\* the cargo routine asked page after page from the previous next_page, stopped at
\* the first response without one, and returns the crates of every page it asked
CargoFollowsNextPage(r) ==
  LET calls == log[r].calls
      cont == log[r].cont
  IN  /\ calls # <<>> => calls[1] = FirstUrl(config)
      /\ \A i \in DOMAIN calls : i > 1 => calls[i] = cont[i - 1]
      /\ \A i \in DOMAIN cont : i < Len(calls) => Truthy(cont[i])
      /\ pc[r] = "done" =>
           /\ Len(cont) = Len(calls)
           /\ calls # <<>> => ~Truthy(cont[Len(cont)])
           /\ IsPermutation(acc[r], log[r].got)
           /\ body[r] = JsonStringify(acc[r])

\* C8: the cargo routine requests pages one after another, each from the next_page of
\* the previous response, stops at the first response whose next_page is absent and
\* returns the crates of every page requested; while the upstream answers and its
\* chain of next_page values is finite, a started routine ends.
C8_CargoFollowsNextPage ==
  /\ [](\A r \in Reqs : (ep[r] = "cargo" /\ Missed(r)) => CargoFollowsNextPage(r))
  /\ \A r \in Reqs :
       (ep[r] = "cargo" /\ pc[r] = "fetch") ~> (pc[r] \in {"done", "failed"})

\* the cargo routine asked for page 1, then for the next_page it was given, and
\* returned crates of both pages
C8_Witness ==
  \E r \in Reqs :
    /\ FinishedMiss(r, "cargo")
    /\ Len(log[r].calls) = 2
    /\ log[r].calls[2] = log[r].cont[1] /\ log[r].calls[2] # log[r].calls[1]
    /\ log[r].cont[2] = Null
    /\ Len(acc[r]) >= 2
    /\ IsPermutation(acc[r], log[r].got) /\ acc[r] # log[r].got

\* the union of the key sets of the five services
AllServiceKeys == UNION {Range(cacheKeys(config)[s]) : s \in Range(Services)}

\* C9: invalidating target "all" issues a delete for exactly the union of the key sets
\* of github, strava, wakatime, npm and leetcode, each key once, and deleted + failed
\* equals the number of distinct keys of that union.
C9_AllDeletesUnionOnce ==
  (inv.target = "all" /\ inv.pc \in {"deleting", "done"}) =>
    /\ Range(inv.keys) = AllServiceKeys
    /\ Len(inv.keys) = Cardinality(AllServiceKeys)
    /\ DOMAIN inv.results = DOMAIN inv.keys
    /\ inv.pc = "done" =>
         /\ inv.response.deleted + inv.response.failed = Cardinality(AllServiceKeys)
         /\ inv.response.keys = inv.keys

\* target "all" responded after one delete was rejected and the others fulfilled
C9_Witness ==
  /\ inv.target = "all" /\ inv.pc = "done"
  /\ inv.response.failed = MaxDelFailures
  /\ inv.response.deleted = Cardinality(AllServiceKeys) - MaxDelFailures
  /\ Count(inv.results, "rejected") = MaxDelFailures
  /\ Count(inv.results, "pending") = 0

ValidTargets == Range(Services) \cup {"all"}

\* C10: for every invalidation request whose target is not one of github, strava,
\* wakatime, npm, leetcode, all, no delete is issued and the response is the error
\* object whose available list is github, strava, wakatime, npm, leetcode, all.
C10_UnknownTargetRejected ==
  (inv.pc # "idle" /\ inv.target \notin ValidTargets) =>
    /\ inv.keys = <<>> /\ inv.results = <<>>
    /\ inv.pc = "done"
    /\ Has(inv.response, "available")
    /\ inv.response.available = <<"github", "strava", "wakatime", "npm", "leetcode", "all">>

-----------------------------------------------------------------------------
(* Claims about failures, concurrency and the life of an entry *)

\* the keys the cacheKeys object maps a valid target to
MappedKeys(t) ==
  IF t = "all" THEN FlatValues(ObjectKeys, config) ELSE cacheKeys(config)[t]

\* C11: for a valid invalidation target a delete is attempted for every mapped key,
\* also when some deletes fail; the response has success true, deleted is the number
\* of deletes that succeeded, failed the number that failed, deleted + failed is the
\* length of keys, and keys is the list of keys attempted.
C11_CountsEveryDelete ==
  (inv.pc # "idle" /\ inv.target \in ValidTargets) =>
    /\ inv.pc \in {"deleting", "done"}
    /\ inv.keys = MappedKeys(inv.target)
    /\ DOMAIN inv.results = DOMAIN inv.keys
    /\ inv.pc = "done" =>
         LET res == inv.response
             fulfilled == {i \in DOMAIN inv.results : inv.results[i] = "fulfilled"}
             rejected == {i \in DOMAIN inv.results : inv.results[i] = "rejected"}
         IN  /\ fulfilled \cup rejected = DOMAIN inv.keys
             /\ res.success = TRUE
             /\ res.deleted = Cardinality(fulfilled)
             /\ res.failed = Cardinality(rejected)
             /\ res.deleted + res.failed = Len(res.keys)
             /\ res.keys = inv.keys

\* target github responded with success although its first delete was rejected; the
\* later deletes were still made
C11_Witness ==
  /\ inv.target = "github" /\ inv.pc = "done"
  /\ inv.results[1] = "rejected"
  /\ inv.response.success = TRUE
  /\ inv.response.failed = 1 /\ inv.response.deleted = Len(inv.keys) - 1
  /\ Len(inv.keys) >= 2

\* request r has just left its store read on the miss path: nothing is sent, nothing
\* is accumulated, and the first upstream call is the next thing it does
MissBegun(r) ==
  /\ pc'[r] = "fetch"
  /\ header'[r] = "none" /\ body'[r] = NoBody
  /\ acc'[r] = <<>> /\ log'[r].calls = <<>>
  /\ cursor'[r] = FirstContinuation(r)

StaysDone(r) == pc[r] = "done" /\ pc'[r] = "done" /\ reqNo'[r] = reqNo[r]

\* C13: on a miss whose upstream fetch succeeds the response is the freshly fetched
\* list, sent while the store write is still in flight and not changed by the write
\* succeeding or failing; a write that fails leaves the entry of its key as it was.
C13_WriteOutcomeDoesNotMatter ==
  /\ [][/\ \A r \in Reqs :
            (pc[r] # "done" /\ pc'[r] = "done" /\ header'[r] = "miss") =>
              /\ body'[r] = JsonStringify(Finished(ep[r], log'[r].unsorted))
              /\ \A w \in writes' \ writes : w.req = reqNo[r] /\ w.val = body'[r]
        /\ \A r \in Reqs :
            StaysDone(r) => body'[r] = body[r] /\ header'[r] = header[r]
        /\ \A w \in writes \ writes' :
            \/ store'[w.key] = [val |-> w.val, ttl |-> w.ttl]
            \/ store' = store]_vars

\* a request that read the store and missed has responded with its list; its write
\* was rejected and the key is as absent as before
C13_Witness ==
  \E r \in Reqs :
    /\ pc[r] = "done" /\ header[r] = "miss" /\ log[r].readOk
    /\ log[r].setex = 1 /\ Len(body[r].json) > 0
    /\ \A w \in writes : w.req # reqNo[r]
    /\ lastWritten[Key(r)] = NoBody /\ store[Key(r)] = Absent

\* an upstream call of request r was rejected in this step
CallRejected(r) ==
  /\ Len(log'[r].calls) = Len(log[r].calls) + 1
  /\ Len(log'[r].cont) = Len(log[r].cont)

\* C14: on each data endpoint, when an upstream call of a miss fails, on the first
\* page or a later one, the request fails: no list, partial or not, is returned,
\* nothing is written to the store, and the request makes no further call.
C14_UpstreamFailureIsFatal ==
  /\ [][\A r \in Reqs :
         CallRejected(r) =>
           /\ pc'[r] = "failed"
           /\ body'[r] = NoBody /\ header'[r] = "none"
           /\ writes' = writes /\ store' = store]_vars
  /\ [][\A r \in Reqs :
         (pc[r] = "failed" /\ reqNo'[r] = reqNo[r]) =>
           pc'[r] = "failed" /\ log'[r] = log[r] /\ body'[r] = NoBody]_vars
  /\ [](\A r \in Reqs :
         pc[r] = "failed" =>
           log[r].setex = 0 /\ \A w \in writes : w.req # reqNo[r])

\* the second page of the cargo listing was refused after the first had delivered
\* crates: the request failed and returned none of them
C14_Witness ==
  \E r \in Reqs :
    /\ pc[r] = "failed" /\ ep[r] = "cargo"
    /\ Len(log[r].calls) = 2 /\ Len(log[r].cont) = 1
    /\ Len(acc[r]) > 0
    /\ body[r] = NoBody /\ writes = {}
    /\ store[Key(r)] = Absent

\* the upstream call request r is waiting for can be answered now
CanFetch(r) == ENABLED (FetchCargo(r) \/ FetchContributions(r) \/ FetchStarred(r))

WholeWrite(k) ==
  \E w \in writes \ writes' : w.key = k /\ store'[k] = [val |-> w.val, ttl |-> w.ttl]

\* the entry of key k lost one tick of its time-to-live and nothing else
Aged(k) == store[k] # Absent /\ store'[k] = [store[k] EXCEPT !.ttl = @ - 1]

\* C16: every store write of a data endpoint carries one complete serialized list,
\* the list its request returned, and replaces the whole value under the key; when
\* two concurrent misses write the same key the entry afterwards is the complete list
\* of the write applied last, never a mixture.
C16_WritesReplaceWhole ==
  /\ [][/\ \A w \in writes' \ writes :
            \E r \in Reqs :
              /\ reqNo[r] = w.req /\ pc'[r] = "done"
              /\ w.val = JsonStringify(acc'[r]) /\ w.val = body'[r]
        /\ \A k \in DataKeys(config) :
            (store'[k] # store[k] /\ store'[k] # Absent) => WholeWrite(k) \/ Aged(k)]_vars
  /\ [](\A k \in DataKeys(config) :
         store[k] # Absent => store[k].val = lastWritten[k])

\* two concurrent starred misses fetched different lists and both writes were
\* applied: the entry is the list of the second write, whole
C16_Witness ==
  /\ fresh # NoFresh /\ fresh.over
  /\ store["github:starred"] # Absent
  /\ store["github:starred"].val # fresh.val
  /\ \E r \in Reqs : \E q \in Reqs \ {r} :
       /\ pc[r] = "done" /\ header[r] = "miss" /\ body[r] = fresh.val
       /\ pc[q] = "done" /\ header[q] = "miss"
       /\ body[q] = store["github:starred"].val

\* the next delete of the invalidation request can be carried out now
CanDelete == ENABLED (\E i \in DOMAIN inv.results : InvSettle(i, TRUE))

\* C17: the invalidation endpoint takes no lock against fetches in flight: while a
\* request is fetching, the pending deletes of an invalidation can be carried out,
\* and a request whose key was deleted during its fetch still writes the list it
\* fetched.
C17_InvalidationTakesNoLock ==
  \A r \in Reqs :
    /\ (pc[r] = "fetch" /\ inv.pc = "deleting" /\ Count(inv.results, "pending") > 0) =>
         CanDelete
    /\ (pc[r] = "done" /\ header[r] = "miss" /\ log[r].cleared /\ Len(acc[r]) > 0) =>
         log[r].setex = 1

\* the only request of the behaviour missed github:starred, the invalidation deleted
\* that key while the request was fetching and has completed, and the key holds the
\* list the request wrote afterwards
C17_Witness ==
  \E r \in Reqs :
    /\ started = 1 /\ inv.pc = "done"
    /\ pc[r] = "done" /\ header[r] = "miss" /\ log[r].cleared
    /\ \E i \in DOMAIN inv.keys : inv.keys[i] = Key(r) /\ inv.results[i] = "fulfilled"
    /\ store[Key(r)] # Absent /\ store[Key(r)].val = body[r]

\* the entry of key k ran out of time in the step
Expired(k) == store[k] # Absent /\ store[k].ttl = 1 /\ store'[k] = Absent

\* the invalidation handler's delete of key k was fulfilled in the step
Invalidated(k) ==
  /\ inv.pc = "deleting" /\ store'[k] = Absent
  /\ \E i \in DOMAIN inv.keys :
       inv.keys[i] = k /\ inv.results[i] = "pending" /\ inv'.results[i] = "fulfilled"

\* the write w was issued in the step by a request that missed w.key and is
\* responding with the list w carries
IssuedByMiss(w) ==
  \E r \in Reqs :
    /\ reqNo[r] = w.req /\ pc[r] \in {"read", "fetch"} /\ pc'[r] = "done"
    /\ header'[r] = "miss" /\ w.key = Key(r)
    /\ w.val = JsonStringify(Finished(ep[r], log'[r].unsorted))
    /\ w.ttl = REDIS_CACHE_DURATION

\* C18: in every reachable state each data entry of the store is the whole list of
\* one write, issued by a request that missed that key and carrying the list that
\* request's fetch produced, and has a time-to-live; an entry changes only by being
\* replaced whole by such a write, by deletion through invalidation, or by the
\* passing of its time.
C18_EntryLifecycle ==
  /\ [](\A k \in DataKeys(config) :
         store[k] # Absent =>
           /\ Has(store[k], "ttl") /\ store[k].ttl \in 1..REDIS_CACHE_DURATION
           /\ store[k].val = lastWritten[k])
  /\ [][/\ \A w \in writes' \ writes : IssuedByMiss(w)
        /\ \A k \in DataKeys(config) :
            store'[k] # store[k] =>
              WholeWrite(k) \/ Aged(k) \/ Expired(k) \/ Invalidated(k)]_vars

\* the entry a miss wrote has aged by one tick and survived an invalidation whose
\* delete of the key was rejected
C18_Witness ==
  \E r \in Reqs :
    /\ pc[r] = "done" /\ header[r] = "miss"
    /\ store[Key(r)] # Absent
    /\ store[Key(r)].val = body[r] /\ store[Key(r)].ttl = REDIS_CACHE_DURATION - 1
    /\ inv.pc = "done"
    /\ \E i \in DOMAIN inv.keys : inv.keys[i] = Key(r) /\ inv.results[i] = "rejected"

\* C19: every data entry is written with the time-to-live REDIS_CACHE_DURATION and
\* regains time only through a new write; when its last tick passes the entry leaves
\* the store, and a request that then reads its key gets no hit and goes to the
\* upstream.
C19_EntriesExpire ==
  /\ [](\A w \in writes : w.ttl = REDIS_CACHE_DURATION)
  /\ [](\A k \in DataKeys(config) :
         store[k] # Absent => store[k].ttl \in 1..REDIS_CACHE_DURATION)
  /\ [][\A k \in DataKeys(config) :
         (store[k] # Absent /\ store'[k] # store[k]) =>
           \/ WholeWrite(k) /\ store'[k].ttl = REDIS_CACHE_DURATION
           \/ Invalidated(k)
           \/ IF store[k].ttl = 1 THEN store'[k] = Absent ELSE Aged(k)]_vars
  /\ [][\A r \in Reqs :
         (pc[r] = "read" /\ pc'[r] # "read" /\ store[Key(r)] = Absent) =>
           header'[r] # "hit" /\ pc'[r] = "fetch"]_vars

\* with no invalidation at all, a request read a key that had been written earlier,
\* found nothing, and completed as a miss after calling the upstream
C19_Witness ==
  \E r \in Reqs :
    /\ invCount = 0 /\ log[r].gone /\ log[r].readOk
    /\ pc[r] = "done" /\ header[r] = "miss"
    /\ log[r].calls # <<>>
    /\ lastWritten[Key(r)] # NoBody

\* C20: the key set of target "all" contains every key a data endpoint writes: after
\* an invalidation of "all" that arrived with no request and no write in flight, in
\* which every delete succeeded, and with no request started since, the store holds
\* no entry of the cargo packages, contributions or starred endpoints.
C20_AllCoversDataKeys ==
  (inv.target = "all" /\ inv.pc = "done" /\ inv.quiet /\ inv.response.failed = 0) =>
    \A e \in Endpoints : store[cacheKey(e, config)] = Absent

-----------------------------------------------------------------------------
(* Claims about the response header *)

\* the list a finished miss built from the responses of its own upstream calls
FetchedHere(r) ==
  /\ log[r].calls # <<>>
  /\ Len(log[r].cont) = Len(log[r].calls)
  /\ body[r] = JsonStringify(Finished(ep[r], log[r].unsorted))
  /\ ep[r] = "cargo" => IsPermutation(log[r].unsorted, log[r].got)
  /\ ep[r] = "starred" => Len(log[r].unsorted) = Len(log[r].got)

-----------------------------------------------------------------------------
(* Claims about empty results *)

EmptyMiss(r) == pc[r] = "done" /\ header[r] = "miss" /\ acc[r] = <<>>

\* C26 as stated: a data endpoint never writes an empty list, and after a miss that
\* fetched no records every later request for the key calls the upstream again until
\* a non-empty list is fetched: when such a miss has completed and no request has
\* started since, the store holds no entry under the key and no write of the key is
\* on its way, so that the next request cannot be served from the store.
C26_EmptyMissLeavesNothingToServe ==
  \A r \in Reqs :
    EmptyMiss(r) =>
      /\ body[r] = JsonStringify(<<>>) /\ log[r].setex = 0
      /\ store[Key(r)] = Absent
      /\ \A w \in writes : w.key # Key(r)

\* C26 amended: a data endpoint never writes an empty list: no setex carries one, no
\* entry holds one and no hit returns one; a miss that fetched no records responds
\* with the empty list and "miss", issues no write and leaves the store as it was;
\* every later request that finds no entry under the key calls the upstream again.
C26_EmptyListIsNeverStored ==
  /\ [](\A w \in writes : w.val.json # <<>>)
  /\ [](\A k \in DataKeys(config) : store[k] # Absent => store[k].val.json # <<>>)
  /\ [](\A r \in Reqs :
         /\ (pc[r] = "done" /\ header[r] = "hit") => body[r].json # <<>>
         /\ EmptyMiss(r) => body[r] = JsonStringify(<<>>) /\ log[r].setex = 0)
  /\ [][\A r \in Reqs :
         (pc[r] = "fetch" /\ pc'[r] = "done" /\ acc'[r] = <<>>) =>
           store' = store /\ writes' = writes /\ lastWritten' = lastWritten]_vars
  /\ [][\A r \in Reqs :
         (pc[r] = "read" /\ pc'[r] # "read" /\ store[Key(r)] = Absent) =>
           pc'[r] = "fetch" /\ log'[r].calls = <<>> /\ body'[r] = NoBody]_vars

\* the third request for a key under which nothing was ever stored read the store,
\* found nothing, called the upstream, fetched no records and issued no write
C26_Witness ==
  \E r \in Reqs :
    /\ EmptyMiss(r) /\ reqNo[r] = 3 /\ log[r].readOk
    /\ log[r].calls # <<>> /\ log[r].setex = 0
    /\ body[r] = JsonStringify(<<>>)
    /\ store[Key(r)] = Absent /\ lastWritten[Key(r)] = NoBody /\ writes = {}

-----------------------------------------------------------------------------
(* Claims about the Strava tokens *)

RefreshTokenKey == "strava:refresh_token"

\* request r runs the refresh handler and its store read settles in this step
RefreshReads(r) ==
  auth[r].kind = "refresh" /\ auth[r].pc = "get" /\ auth'[r].pc # "get"

\* request r has sent refresh token t to the token endpoint
Sent(r, t) ==
  /\ auth[r].pc \in {"exchange", "mset"} \/ auth[r].calls > 0
  /\ auth[r].refreshToken = t

\* C22: a Strava token refresh sends upstream the refresh token it read from the
\* store when one is stored, and the configured default when the store holds none.
C22_SendsStoredElseDefault ==
  [][\A r \in Reqs :
       (RefreshReads(r) /\ auth'[r].readOk) =>
         LET stored == StoreGetString(store, RefreshTokenKey) IN
           /\ stored # Null =>
                /\ auth'[r].pc = "exchange"
                /\ auth'[r].refreshToken = stored
           /\ (stored = Null /\ Truthy(config.stravaRefreshToken)) =>
                /\ auth'[r].pc = "exchange"
                /\ auth'[r].refreshToken = config.stravaRefreshToken
           /\ (stored = Null /\ ~Truthy(config.stravaRefreshToken)) =>
                /\ auth'[r].pc = "done"
                /\ auth'[r].result.access_token = Null]_vars

\* the first refresh found no token in the store and sent the configured default;
\* the second sent the token the first had stored, although a default is configured
C22_Witness ==
  \E r, q \in Reqs :
    /\ auth[r].kind = "refresh" /\ auth[r].no = 1 /\ auth[r].readOk
    /\ auth[r].pc = "done" /\ auth[r].persisted
    /\ auth[r].refreshToken = "Renv" /\ config.stravaRefreshToken = "Renv"
    /\ auth[q].kind = "refresh" /\ auth[q].no = 2 /\ auth[q].readOk
    /\ Sent(q, auth[r].response.refresh_token)

IssueNo(response) ==
  CHOOSE n \in 0..(MaxIssued + 1) : response.refresh_token = TokenResponse(n).refresh_token

\* C24: nothing guards concurrent refreshes: a refresh can always read the store and
\* exchange the token it read, whatever other refreshes are doing, so two of them can
\* exchange the same token; the store holds the pair of the mset that was applied
\* last, whether or not the token endpoint issued that pair last.
C24_LastAppliedMsetWins ==
  /\ \A r \in Reqs :
       (auth[r].kind = "refresh" /\ auth[r].pc = "get"
          /\ \E q \in Reqs : q # r /\ auth[q].pc \in {"exchange", "mset"})
         => ENABLED RefreshGet(r)
  /\ \A r \in Reqs :
       (auth[r].pc = "exchange" /\ issued < MaxIssued) => ENABLED ExchangeOk(r)
  /\ tokenLog.applied # NoBody =>
       \A k \in DOMAIN tokenLog.applied : store[k] = [val |-> tokenLog.applied[k]]

\* two refreshes read R0 and both exchanged it; the one that was answered first
\* stored its pair last, so the store holds a refresh token that the token endpoint
\* had superseded by issuing a newer one
C24_Witness ==
  \E r, q \in Reqs :
    /\ auth[r].kind = "refresh" /\ auth[q].kind = "refresh"
    /\ auth[r].pc = "done" /\ auth[q].pc = "done"
    /\ auth[r].refreshToken = "R0" /\ auth[q].refreshToken = "R0"
    /\ auth[r].readOk /\ auth[q].readOk
    /\ auth[r].persisted /\ auth[q].persisted
    /\ IssueNo(auth[r].response) < IssueNo(auth[q].response)
    /\ store[RefreshTokenKey] = [val |-> auth[r].response.refresh_token]
    /\ store["strava:access_token"] = [val |-> auth[r].response.access_token]

\* C25: when the token exchange of a refresh fails, the error propagates to the
\* caller, the exchange is not retried (a request calls the token endpoint at most
\* once) and the stored access and refresh tokens are unchanged.
C25_ExchangeFailurePropagates ==
  /\ [](\A r \in Reqs : auth[r].calls <= 1)
  /\ [](\A r \in Reqs :
         (auth[r].kind = "refresh" /\ auth[r].pc = "failed") =>
           /\ auth[r].result = [threw |-> "upstream error"]
           /\ auth[r].calls = 1 /\ auth[r].response = NoBody
           /\ ~auth[r].persisted)
  /\ [][\A r \in Reqs :
         (auth[r].kind = "refresh" /\ auth[r].pc = "exchange" /\ auth'[r].pc = "failed") =>
           store' = store /\ tokenLog' = tokenLog /\ issued' = issued]_vars
  /\ [][\A r \in Reqs :
         (auth[r].pc = "failed" /\ auth'[r].no = auth[r].no) => auth'[r] = auth[r]]_vars

\* a refresh sent the stored token, its exchange was rejected, it threw, and the
\* store holds the tokens it held before
C25_Witness ==
  \E r \in Reqs :
    /\ auth[r].kind = "refresh" /\ auth[r].pc = "failed"
    /\ auth[r].refreshToken = "R0" /\ auth[r].calls = 1
    /\ auth[r].result = [threw |-> "upstream error"]
    /\ \A k \in TokenKeys : store[k] = [val |-> Seeded[k]]
    /\ issued = 0

\* the access token and the refresh token in the store are those of one response
SamePair ==
  \/ store["strava:access_token"] = Absent /\ store[RefreshTokenKey] = Absent
  \/ \E n \in 0..MaxIssued :
       /\ store["strava:access_token"] = [val |-> TokenResponse(n).access_token]
       /\ store[RefreshTokenKey] = [val |-> TokenResponse(n).refresh_token]

\* C27: under any interleaving of refresh requests and OAuth callbacks the stored
\* access token and refresh token come from the same token response: they are
\* written in one store operation, never one without the other.
C27_TokensStoredAsAPair ==
  /\ [](SamePair)
  /\ [][(store'["strava:access_token"] # store["strava:access_token"]
           \/ store'[RefreshTokenKey] # store[RefreshTokenKey]) =>
          \E r \in Reqs :
            /\ auth[r].pc = "mset" /\ auth'[r].persisted
            /\ store'["strava:access_token"] = [val |-> auth[r].response.access_token]
            /\ store'[RefreshTokenKey] = [val |-> auth[r].response.refresh_token]]_vars

\* a callback and a refresh ran concurrently and both stored their tokens; the store
\* holds the pair of the refresh and the athlete id of the callback
C27_Witness ==
  \E r, q \in Reqs :
    /\ auth[r].kind = "callback" /\ auth[r].pc = "done" /\ auth[r].persisted
    /\ auth[q].kind = "refresh" /\ auth[q].pc = "done" /\ auth[q].persisted
    /\ auth[q].refreshToken = "Renv"
    /\ store["strava:access_token"] = [val |-> auth[q].response.access_token]
    /\ store[RefreshTokenKey] = [val |-> auth[q].response.refresh_token]
    /\ store["strava:athlete_id"] = [val |-> Athlete.id]

\* C30: the refresh handler uses the configured default token only when the store
\* returned no refresh token or the store read failed; a failed read is never
\* returned to the caller; a token the store returned always takes precedence.
C30_DefaultOnlyWithoutStoredToken ==
  [][\A r \in Reqs :
       RefreshReads(r) =>
         LET stored == StoreGetString(store, RefreshTokenKey) IN
           /\ auth'[r].pc \in {"exchange", "done"}
           /\ auth'[r].pc = "done" =>
                auth'[r].result = [access_token |-> Null,
                                   error |-> "Refresh token not found"]
           /\ (auth'[r].pc = "exchange"
                 /\ auth'[r].refreshToken = config.stravaRefreshToken) =>
                stored = Null \/ ~auth'[r].readOk
           /\ (auth'[r].readOk /\ stored # Null) =>
                auth'[r].pc = "exchange" /\ auth'[r].refreshToken = stored
           /\ (~auth'[r].readOk /\ Truthy(config.stravaRefreshToken)) =>
                auth'[r].pc = "exchange"
                  /\ auth'[r].refreshToken = config.stravaRefreshToken]_vars

\* the store holds R0 and the read failed: the refresh used the default, was given a
\* new pair and returned its access token
C30_Witness ==
  \E r \in Reqs :
    /\ auth[r].kind = "refresh" /\ auth[r].pc = "done" /\ ~auth[r].readOk
    /\ auth[r].refreshToken = "Renv" /\ auth[r].calls = 1
    /\ ~auth[r].persisted /\ store[RefreshTokenKey] = [val |-> "R0"]
    /\ auth[r].result = [access_token |-> auth[r].response.access_token]

-----------------------------------------------------------------------------
(* Claims about what an invalidation leaves alone *)

\* the keys whose entry differs between the two states of a step
Touched == {k \in DOMAIN store : store'[k] # store[k]}

\* a step of the invalidation request in progress
InvalidationActs == inv.pc = "deleting" /\ inv' # inv

\* C28: invalidating the target of one service deletes entries under that service's
\* mapped keys only and leaves the entries of the other services as they are; no
\* target, "strava" and "all" included, ever deletes the stored Strava access token,
\* refresh token or athlete id.
C28_InvalidationFrame ==
  /\ [](\A k \in TokenKeys : store[k] = [val |-> Seeded[k]])
  /\ [][InvalidationActs =>
          /\ \A k \in Touched : store'[k] = Absent /\ k \notin TokenKeys
          /\ inv.target \in Range(Services) =>
               Touched \subseteq Range(cacheKeys(config)[inv.target])
          /\ Touched \subseteq AllServiceKeys]_vars

\* target "strava" was invalidated: strava:activities is gone, the three token keys
\* and the entries of github (one of them written by the starred endpoint) are there
C28_Witness ==
  /\ inv.target = "strava" /\ inv.pc = "done"
  /\ inv.response.deleted = 1 /\ inv.response.failed = 0
  /\ store["strava:activities"] = Absent
  /\ \A k \in TokenKeys : store[k] = [val |-> Seeded[k]]
  /\ store["github:repositories"] = [val |-> ForeignValue]
  /\ store["github:starred"] # Absent
  /\ store["wakatime:stats"] = [val |-> ForeignValue]

-----------------------------------------------------------------------------
(* Claims about the request that follows an invalidation *)

\* C29: after an invalidation of a target in which every delete succeeded and no
\* request was in flight, the next request to a data endpoint of that target is not
\* served from any cache: when it completes, it has called the upstream and its
\* response is the list it fetched, labelled "miss".
C29_FreshAfterInvalidation ==
  \A r \in Reqs :
    (log[r].swept /\ pc[r] = "done") =>
      /\ header[r] = "miss"
      /\ FetchedHere(r)

-----------------------------------------------------------------------------
(* Claims about the early returns of the Strava handlers *)

RefreshHandlers == {"refresh", "refreshNoFallback"}

NotFoundResult == [access_token |-> Null, error |-> "Refresh token not found"]

\* the read of request r settles in this step and gives its handler no token: the
\* store holds none, or (refresh handler) the read is rejected
NoTokenRead(r) ==
  /\ auth[r].kind \in RefreshHandlers
  /\ auth[r].pc = "get" /\ auth'[r].pc # "get"
  /\ \/ auth'[r].readOk /\ StoreGetString(store, RefreshTokenKey) = Null
     \/ auth[r].kind = "refresh" /\ ~auth'[r].readOk

\* C31: when neither the store nor the configuration provides a refresh token, the
\* Strava refresh returns access_token null with error 'Refresh token not found',
\* makes no upstream call and leaves the store unchanged.
C31_NoTokenNoCall ==
  /\ [][\A r \in Reqs :
         (NoTokenRead(r) /\ ~Truthy(config.stravaRefreshToken)) =>
           /\ auth'[r].pc = "done"
           /\ auth'[r].result = NotFoundResult
           /\ auth'[r].calls = 0
           /\ store' = store /\ issued' = issued /\ tokenLog' = tokenLog]_vars
  /\ [](\A r \in Reqs :
         (auth[r].pc = "done" /\ auth[r].result = NotFoundResult) =>
           /\ auth[r].calls = 0 /\ auth[r].response = NoBody
           /\ ~auth[r].persisted)
  /\ [][\A r \in Reqs :
         (auth[r].pc = "done" /\ auth[r].result = NotFoundResult
            /\ auth'[r].no = auth[r].no) => auth'[r] = auth[r]]_vars

\* with an empty store and no default configured, a request to each of the two
\* refresh handlers returned 'Refresh token not found'; nothing was issued or stored
C31_Witness ==
  \E r, q \in Reqs :
    /\ auth[r].kind = "refresh" /\ auth[q].kind = "refreshNoFallback"
    /\ auth[r].pc = "done" /\ auth[q].pc = "done"
    /\ auth[r].result = NotFoundResult /\ auth[q].result = NotFoundResult
    /\ auth[r].readOk /\ auth[q].readOk
    /\ config.stravaRefreshToken = ""
    /\ issued = 0
    /\ \A k \in TokenKeys : store[k] = Absent

NotConfiguredResult == [access_token |-> Null, error |-> "Strava not configured"]

\* the configuration lacks the Strava client id or the client secret
CredentialsMissing == config.stravaClientId = "" \/ config.stravaClientSecret = ""

\* C32: when the Strava client id or client secret is not configured, the refresh
\* returns access_token null with error 'Strava not configured' and performs no
\* store read, no upstream call and no store write.
C32_NotConfiguredTouchesNothing ==
  /\ [](CredentialsMissing =>
          \A r \in Reqs :
            auth[r].kind \in RefreshHandlers =>
              /\ auth[r].pc = "done"
              /\ auth[r].result = NotConfiguredResult
              /\ ~auth[r].readOk /\ auth[r].refreshToken = Undefined
              /\ auth[r].calls = 0 /\ auth[r].response = NoBody
              /\ ~auth[r].persisted)
  /\ [][\A r \in Reqs :
         (CredentialsMissing /\ auth'[r].kind \in RefreshHandlers
            /\ auth'[r] # auth[r]) =>
           /\ auth'[r].no # auth[r].no
           /\ store' = store /\ issued' = issued /\ tokenLog' = tokenLog]_vars

\* the client id is configured and the secret is not: a request to each refresh
\* handler returned 'Strava not configured' over a store that holds tokens
C32_Witness ==
  \E r, q \in Reqs :
    /\ Truthy(config.stravaClientId) /\ ~Truthy(config.stravaClientSecret)
    /\ auth[r].kind = "refresh" /\ auth[q].kind = "refreshNoFallback"
    /\ auth[r].pc = "done" /\ auth[q].pc = "done"
    /\ auth[r].result = NotConfiguredResult /\ auth[q].result = NotConfiguredResult
    /\ store[RefreshTokenKey] # Absent
    /\ issued = 0

-----------------------------------------------------------------------------
(* Claims about the data handlers' routines *)

\* the store read of cargo request r settles in this step without a value to serve
CargoMisses(r) ==
  /\ ep[r] = "cargo"
  /\ pc[r] = "read" /\ pc'[r] # "read"
  /\ header'[r] # "hit"

\* C33: when no cargo user id is configured, a cargo packages request that misses
\* the store makes no upstream call, returns the empty list with header "miss" and
\* writes nothing to the store.
C33_NoUserIdNoFetch ==
  /\ [][\A r \in Reqs :
         (config.cargoUserId = "" /\ CargoMisses(r)) =>
           /\ pc'[r] = "done"
           /\ header'[r] = "miss"
           /\ body'[r] = JsonStringify(<<>>)
           /\ log'[r].calls = <<>> /\ log'[r].setex = 0
           /\ writes' = writes /\ store' = store]_vars
  /\ [](config.cargoUserId = "" =>
          \A r \in Reqs :
            ep[r] = "cargo" =>
              /\ pc[r] \notin {"fetch", "failed"}
              /\ log[r].calls = <<>> /\ log[r].setex = 0)

\* no user id is configured and a cargo request whose read succeeded over an empty
\* entry returned the empty list as a miss
C33_Witness ==
  \E r \in Reqs :
    /\ config.cargoUserId = ""
    /\ ep[r] = "cargo" /\ pc[r] = "done"
    /\ log[r].readOk
    /\ header[r] = "miss" /\ body[r] = JsonStringify(<<>>)
    /\ store[cacheKey("cargo", config)] = Absent
    /\ writes = {}

\* the merged list of contributions request r before it is sorted
Merged(r) == IF pc[r] = "done" THEN log[r].unsorted ELSE acc[r]

\* project p is record f under its lower-cased key
KeptFrom(p, f) ==
  /\ p.name = toLowerCase(Or(Get(f, "nameWithOwner"), Get(f, "name")))
  /\ p.nameWithOwner = Get(f, "nameWithOwner")
  /\ p.stargazerCount = StarsOrZero(f)

\* C34: in the GitHub contributions routine, de-duplication keeps the first record
\* seen for each lower-cased full name (falling back to the plain name) and discards
\* later ones, every kept record's name is that lower-cased key, and a record with
\* neither full name nor name is dropped from the result.
C34_FirstRecordPerKey ==
  \A r \in Reqs :
    ep[r] = "contributions" /\ pc[r] \in {"fetch", "done"} /\ header[r] # "hit" =>
      /\ Len(Merged(r)) = Cardinality(log[r].first)
      /\ \A i \in DOMAIN Merged(r) :
           /\ Truthy(Merged(r)[i].name)
           /\ \E f \in log[r].first : KeptFrom(Merged(r)[i], f)
      /\ \A f \in log[r].first : \E i \in DOMAIN Merged(r) : KeptFrom(Merged(r)[i], f)

\* the routine met Ab/X (50 stars) before ab/x (10 stars), a record named by its
\* plain name only and a record without any name: the list holds the first under
\* the key ab/x, "zed", and nothing for the nameless record
C34_Witness ==
  \E r \in Reqs :
    /\ FinishedMiss(r, "contributions")
    /\ log[r].again /\ Len(log[r].calls) >= 2
    /\ RepoA \in log[r].first /\ RepoD \in log[r].first
    /\ "" \in log[r].keys
    /\ \E i \in DOMAIN acc[r] :
         /\ acc[r][i].name = "ab/x" /\ acc[r][i].nameWithOwner = "Ab/X"
         /\ acc[r][i].stargazerCount = 50
    /\ \E i \in DOMAIN acc[r] : acc[r][i].name = "zed"
    /\ Len(acc[r]) = 2

-----------------------------------------------------------------------------
(* Claims about the Strava OAuth callback *)

\* callback request r takes a step
CallbackSteps(r) ==
  /\ auth[r].kind = "callback"
  /\ auth'[r].no = auth[r].no
  /\ auth'[r] # auth[r]

\* the response of the token exchange carries an athlete id
CarriesAthleteId(response) ==
  Has(response, "athlete") /\ response.athlete.id # 0

SuccessResult(a) ==
  /\ Has(a.result, "success") /\ a.result.success
  /\ a.result.athlete.id = a.response.athlete.id

\* C35: the Strava OAuth callback writes tokens to the store only after a token
\* exchange whose response carries an athlete id: a request without a code fails
\* before any upstream call, an exchange failure or a response without athlete id
\* fails the request with the store unchanged, and a failing store write does not
\* prevent the success response.
C35_CallbackWritesAfterExchange ==
  \* a callback changes the store only by the mset that follows such an exchange
  /\ [][\A r \in Reqs :
         (CallbackSteps(r) /\ store' # store) =>
           /\ auth[r].pc = "mset" /\ auth[r].calls = 1
           /\ CarriesAthleteId(auth[r].response)
           /\ store' = StoreMset(store, MsetArgs(auth[r]))]_vars
  /\ [](\A r \in Reqs :
         auth[r].kind = "callback" =>
           /\ auth[r].persisted => CarriesAthleteId(auth[r].response)
           /\ auth[r].pc = "mset" => CarriesAthleteId(auth[r].response))
  \* without a code the request fails in its first step, before any call
  /\ [][\A r \in Reqs :
         (auth'[r].kind = "callback" /\ auth'[r].no # auth[r].no) =>
           /\ store' = store /\ issued' = issued
           /\ auth'[r].calls = 0
           /\ auth'[r].pc \in {"failed", "exchange"}
           /\ auth'[r].pc = "failed" =>
                auth'[r].result = [threw |-> "TypeError: Code is not set"]]_vars
  /\ [](\A r \in Reqs :
         (auth[r].kind = "callback"
            /\ auth[r].result = [threw |-> "TypeError: Code is not set"]) =>
           /\ auth[r].pc = "failed" /\ auth[r].calls = 0
           /\ auth[r].response = NoBody /\ ~auth[r].persisted)
  \* a rejected exchange or a response without athlete id fails the request
  /\ [][\A r \in Reqs :
         (CallbackSteps(r) /\ auth[r].pc = "exchange"
            /\ ~CarriesAthleteId(auth'[r].response)) =>
           /\ auth'[r].pc = "failed"
           /\ store' = store /\ tokenLog' = tokenLog]_vars
  /\ [](\A r \in Reqs :
         (auth[r].kind = "callback" /\ auth[r].pc = "failed") => ~auth[r].persisted)
  \* the mset settles either way into the success response
  /\ [][\A r \in Reqs :
         (CallbackSteps(r) /\ auth[r].pc = "mset") =>
           /\ auth'[r].pc = "done"
           /\ SuccessResult(auth'[r])
           /\ ~auth'[r].persisted => store' = store]_vars

\* over an empty store one callback answered with success although its mset was
\* rejected, another failed on a response without athlete, and no token is stored
C35_Witness ==
  \E r, q \in Reqs :
    /\ auth[r].kind = "callback" /\ auth[q].kind = "callback"
    /\ auth[r].pc = "done" /\ SuccessResult(auth[r]) /\ ~auth[r].persisted
    /\ auth[q].pc = "failed" /\ auth[q].calls = 1
    /\ auth[q].response # NoBody /\ ~CarriesAthleteId(auth[q].response)
    /\ \A k \in TokenKeys : store[k] = Absent

=============================================================================
